---- MODULE Spec2Model ----
(***************************************************************************)
(* A model of pystow's directory resolver (Module.from_key, Module.module, *)
(* Module.join, pystow.join) and of its ensure-or-fetch operations         *)
(* (ensure, ensure_from_s3, ensure_from_google, as Module methods and as   *)
(* top-level functions) over an abstract file system.                      *)
(*                                                                         *)
(* A path is the sequence of its components; <<>> is the file-system root. *)
(* A string that may hold "/" (a URL, an S3 key) is the sequence of its    *)
(* "/"-separated segments, so "/".join is concatenation of such sequences. *)
(* Subkeys and file names are non-empty strings, and the two are drawn     *)
(* from disjoint sets, so a directory never collides with a file.          *)
(***************************************************************************)
EXTENDS Naturals, Sequences, FiniteSets

VARIABLES
    dirs,      \* the directories that exist on disk (a set of paths)
    files,     \* the files that exist on disk: path -> content
    patched,   \* pystow.utils.download is replaced by the tests' mock
    mod,       \* the Module object the caller holds (its base), or NoModule
    last,      \* what the last call was, did and returned
    ncalls,    \* number of calls made so far
    env,       \* the environment variables of the process: name -> value
    procs      \* the processes that call concurrently: where each one is

vars == <<dirs, files, patched, mod, last, ncalls, env, procs>>

----------------------------------------------------------------------------
(* Bounds of the model. *)

\* number of calls in one behaviour
MaxCalls == 2
\* number of calls in one behaviour of the RDF cache
MaxRdfCalls == 3

----------------------------------------------------------------------------
(* Inputs. *)

None == "None"
Keys == {"k1", "k2"}
FileNames == {"n"}
\* URLs, by their segments: http://host/p/f
Urls == {<<"host", "p", "f">>}
\* S3 keys: the string "p/f", and the sequence ("p", "q/g")
S3Keys == {[str |-> TRUE, parts |-> << <<"p", "f">> >>],
           [str |-> FALSE, parts |-> << <<"p">>, <<"q", "g">> >>]}
FileIds == {"id1"}

\* The subkeys of a call: none, one, and two in an order that matters.
SubkeySeqs == {<<>>, <<"a">>, <<"a", "b">>}

\* The home directory (PYSTOW_HOME); nothing of it exists at the start.
Home == <<"home">>
NoPath == <<>>
NoModule == <<>>

\* The built-in default home, used when PYSTOW_HOME is not set.
DefaultHome == <<"~", ".data">>
\* A directory that the override variable of a key is set to.
OverrideRoots == {<<"alt">>}

\* str.upper on the keys.
Upper(key) == CASE key = "k1" -> "K1" [] key = "k2" -> "K2"
\* The name of the variable that overrides the root of key: f"{KEY}_HOME".
EnvVarOf(key) == <<Upper(key), "_HOME">>
HomeEnvVar == <<"PYSTOW", "_HOME">>
EnvVars == {HomeEnvVar} \cup {EnvVarOf(key) : key \in Keys}

\* The environment of the tests: PYSTOW_HOME is the temporary directory and
\* no key has an override.  A variable that is not set holds NoPath.
TestEnv == [v \in EnvVars |-> IF v = HomeEnvVar THEN Home ELSE NoPath]

\* The processes: two that call ensure, and one that reads files.  A
\* process is idle, or inside a call at the place pc names; call is the
\* number of its call, target the path it works on, fetched whether it
\* started a fetch, finished the rank of its write among the writes that
\* were completed, and saw what it found in the file it was handed or read.
Callers == {"p1", "p2"}
Reader == "reader"
Idle ==
    [pc |-> "idle", call |-> 0, url |-> <<>>, target |-> <<>>,
     fetched |-> FALSE, finished |-> 0, saw |-> [src |-> <<>>, call |-> 0]]
NoProcs == [p \in Callers \cup {Reader} |-> Idle]

----------------------------------------------------------------------------
(* The file system. *)

Prefixes(path) == {SubSeq(path, 1, i) : i \in 0..Len(path)}
Parent(path) == SubSeq(path, 1, Len(path) - 1)
Exists(d, f, path) == path \in d \/ path \in DOMAIN f

\* pystow.utils.mkdir: with ensure_exists every level of the path that is
\* missing is created, and an existing directory is no error; without it
\* nothing is created.
mkdir(d, path, ensure_exists) ==
    IF ensure_exists THEN d \cup Prefixes(path) ELSE d

\* pystow.utils.get_home with ensure_exists=False: PYSTOW_HOME when it is
\* set, else the built-in default; read from the environment at each call.
get_home == IF env[HomeEnvVar] # NoPath THEN env[HomeEnvVar] ELSE DefaultHome

\* pystow.utils.get_base with ensure_exists=False: the value of <KEY>_HOME
\* when it is set, else <home>/<key>; nothing is made.
get_base(key) ==
    IF env[EnvVarOf(key)] # NoPath THEN env[EnvVarOf(key)]
    ELSE get_home \o <<key>>

----------------------------------------------------------------------------
(* The directory resolver.  Each operator takes the directories on disk    *)
(* and returns the path it computes with the directories it leaves.        *)

\* the constructor without its mkdir call
ModuleInitNoMkdir(d, base, ensure_exists) ==
    [path |-> base, dirs |-> d]

\* Module.__init__
ModuleInit(d, base, ensure_exists) ==
    [path |-> base, dirs |-> mkdir(d, base, ensure_exists)]

\* the subkeys joined last to first
ModuleJoinReversed(d, base, subkeys, name, ensure_exists) ==
    LET rev == [i \in 1..Len(subkeys) |-> subkeys[Len(subkeys) + 1 - i]]
        rv == base \o rev
    IN  [path |-> IF name # None THEN Append(rv, name) ELSE rv,
         dirs |-> IF subkeys # <<>> THEN mkdir(d, rv, ensure_exists) ELSE d]

\* Module.join
ModuleJoin(d, base, subkeys, name, ensure_exists) ==
    LET rv == base \o subkeys
    IN  [path |-> IF name # None THEN Append(rv, name) ELSE rv,
         dirs |-> IF subkeys # <<>> THEN mkdir(d, rv, ensure_exists) ELSE d]

\* module() keeping the first of its subkeys only
ModuleModuleFirstSubkey(d, base, subkeys, ensure_exists) ==
    LET j == ModuleJoin(d, base, SubSeq(subkeys, 1, 1), None, FALSE)
    IN  ModuleInit(j.dirs, j.path, ensure_exists)

\* Module.module
ModuleModule(d, base, subkeys, ensure_exists) ==
    LET j == ModuleJoin(d, base, subkeys, None, FALSE)
    IN  ModuleInit(j.dirs, j.path, ensure_exists)

\* ensure_exists not handed to the constructor, which defaults to true
FromKeyAlwaysCreatesBase(d, key, subkeys, ensure_exists) ==
    LET rv == ModuleInit(d, get_base(key), TRUE)
    IN  IF subkeys # <<>>
        THEN ModuleModule(rv.dirs, rv.path, subkeys, ensure_exists)
        ELSE rv

\* the override variable of the key not looked at
FromKeyIgnoresOverride(d, key, subkeys, ensure_exists) ==
    LET rv == ModuleInit(d, get_home \o <<key>>, ensure_exists)
    IN  IF subkeys # <<>>
        THEN ModuleModule(rv.dirs, rv.path, subkeys, ensure_exists)
        ELSE rv

\* Module.from_key
FromKey(d, key, subkeys, ensure_exists) ==
    LET rv == ModuleInit(d, get_base(key), ensure_exists)
    IN  IF subkeys # <<>>
        THEN ModuleModule(rv.dirs, rv.path, subkeys, ensure_exists)
        ELSE rv

\* api.join
ApiJoin(d, key, subkeys, name, ensure_exists) ==
    LET m == FromKey(d, key, <<>>, ensure_exists)
    IN  ModuleJoin(m.dirs, m.path, subkeys, name, ensure_exists)

----------------------------------------------------------------------------
(* Fetching.  The content of a fetched file is the source it came from    *)
(* and the number of the call whose fetch wrote it, so that a file written *)
(* again differs from what it held.  Each operator returns the files it    *)
(* leaves, how many fetches it started and whether it raised.              *)

Content(src, call) == [src |-> src, call |-> call]
NoContent == [src |-> <<>>, call |-> 0]

\* One transfer to path: it needs the parent directory and fails when the
\* network does (ok is false); a failed transfer writes nothing.
Transfer(d, f, src, path, ok) ==
    IF Parent(path) \in d /\ path \notin d /\ ok
    THEN [files |-> [p \in DOMAIN f \cup {path} |->
                        IF p = path THEN Content(src, ncalls + 1) ELSE f[p]],
          fetches |-> 1, raised |-> FALSE]
    ELSE [files |-> f, fetches |-> 1, raised |-> TRUE]

\* pystow.utils.download, download_from_s3, download_from_google: skip when
\* the path exists and force is false, else one transfer.
download(d, f, src, path, force, ok) ==
    IF Exists(d, f, path) /\ ~force
    THEN [files |-> f, fetches |-> 0, raised |-> FALSE]
    ELSE Transfer(d, f, src, path, ok)

\* The tests' replacement of pystow.utils.download: shutil.copy of the
\* local resource, whatever force is; a local copy needs no network.
mock_get_data(d, f, src, path) == Transfer(d, f, src, path, TRUE)

\* pystow.utils.name_from_url and name_from_s3_key: the final segment.
name_from_url(url) == url[Len(url)]
name_from_s3_key(key) == key[Len(key)]

RECURSIVE Flatten(_)
Flatten(parts) ==
    IF parts = <<>> THEN <<>> ELSE Head(parts) \o Flatten(Tail(parts))

\* What an ensure call hands back: the path it returns (NoPath when it
\* raised), its target, and the file system it leaves.
Outcome(j, dl) ==
    [path |-> IF dl.raised THEN NoPath ELSE j.path,
     target |-> j.path,
     dirs |-> j.dirs,
     files |-> dl.files,
     fetches |-> dl.fetches,
     raised |-> dl.raised,
     parentAtFetch |-> dl.fetches = 0 \/ Parent(j.path) \in j.dirs]

\* force not handed on: every call fetches
ModuleEnsureForced(d, f, base, subkeys, url, name, force, ok) ==
    LET nm == IF name = None THEN name_from_url(url) ELSE name
        j == ModuleJoin(d, base, subkeys, nm, TRUE)
        dl == IF patched
              THEN mock_get_data(j.dirs, f, <<url>>, j.path)
              ELSE download(j.dirs, f, <<url>>, j.path, TRUE, ok)
    IN  Outcome(j, dl)

\* the existence check made by ensure itself, before it calls download
ModuleEnsureChecksFirst(d, f, base, subkeys, url, name, force, ok) ==
    LET nm == IF name = None THEN name_from_url(url) ELSE name
        j == ModuleJoin(d, base, subkeys, nm, TRUE)
        dl == IF Exists(j.dirs, f, j.path) /\ ~force
              THEN [files |-> f, fetches |-> 0, raised |-> FALSE]
              ELSE IF patched
              THEN mock_get_data(j.dirs, f, <<url>>, j.path)
              ELSE download(j.dirs, f, <<url>>, j.path, force, ok)
    IN  Outcome(j, dl)

\* a failed download tried once more
ModuleEnsureRetries(d, f, base, subkeys, url, name, force, ok) ==
    LET nm == IF name = None THEN name_from_url(url) ELSE name
        j == ModuleJoin(d, base, subkeys, nm, TRUE)
        dl == IF patched
              THEN mock_get_data(j.dirs, f, <<url>>, j.path)
              ELSE download(j.dirs, f, <<url>>, j.path, force, ok)
        again == IF patched
                 THEN mock_get_data(j.dirs, f, <<url>>, j.path)
                 ELSE download(j.dirs, f, <<url>>, j.path, force, ok)
    IN  IF dl.raised
        THEN Outcome(j, [again EXCEPT !.fetches = dl.fetches + @])
        ELSE Outcome(j, dl)

\* Module.ensure
ModuleEnsure(d, f, base, subkeys, url, name, force, ok) ==
    LET nm == IF name = None THEN name_from_url(url) ELSE name
        j == ModuleJoin(d, base, subkeys, nm, TRUE)
        dl == IF patched
              THEN mock_get_data(j.dirs, f, <<url>>, j.path)
              ELSE download(j.dirs, f, <<url>>, j.path, force, ok)
    IN  Outcome(j, dl)

\* api.ensure
ApiEnsure(d, f, key, subkeys, url, name, force, ok) ==
    LET m == FromKey(d, key, <<>>, TRUE)
    IN  ModuleEnsure(m.dirs, f, m.path, subkeys, url, name, force, ok)

\* force not handed on to download_from_s3
ModuleEnsureFromS3NoForce(d, f, base, subkeys, s3_key, name, force, ok) ==
    LET key == IF ~s3_key.str THEN Flatten(s3_key.parts) ELSE s3_key.parts[1]
        nm == IF name = None THEN name_from_s3_key(key) ELSE name
        j == ModuleJoin(d, base, subkeys, nm, TRUE)
    IN  Outcome(j, download(j.dirs, f, <<key>>, j.path, FALSE, ok))

\* a sequence key not joined: its first element taken for the key
ModuleEnsureFromS3NoJoin(d, f, base, subkeys, s3_key, name, force, ok) ==
    LET key == s3_key.parts[1]
        nm == IF name = None THEN name_from_s3_key(key) ELSE name
        j == ModuleJoin(d, base, subkeys, nm, TRUE)
    IN  Outcome(j, download(j.dirs, f, <<key>>, j.path, force, ok))

\* Module.ensure_from_s3
ModuleEnsureFromS3(d, f, base, subkeys, s3_key, name, force, ok) ==
    LET key == IF ~s3_key.str THEN Flatten(s3_key.parts) ELSE s3_key.parts[1]
        nm == IF name = None THEN name_from_s3_key(key) ELSE name
        j == ModuleJoin(d, base, subkeys, nm, TRUE)
    IN  Outcome(j, download(j.dirs, f, <<key>>, j.path, force, ok))

\* Module.ensure_from_google
ModuleEnsureFromGoogle(d, f, base, subkeys, name, file_id, force, ok) ==
    LET j == ModuleJoin(d, base, subkeys, name, TRUE)
    IN  Outcome(j, download(j.dirs, f, << <<file_id>> >>, j.path, force, ok))

\* api.ensure_from_s3
ApiEnsureFromS3(d, f, key, subkeys, s3_key, name, force, ok) ==
    LET m == FromKey(d, key, <<>>, TRUE)
    IN  ModuleEnsureFromS3(m.dirs, f, m.path, subkeys, s3_key, name, force, ok)

\* api.ensure_from_google
ApiEnsureFromGoogle(d, f, key, subkeys, name, file_id, force, ok) ==
    LET m == FromKey(d, key, <<>>, TRUE)
    IN  ModuleEnsureFromGoogle(m.dirs, f, m.path, subkeys, name, file_id,
                               force, ok)

----------------------------------------------------------------------------
(* The record of a call: what was called with what, what it returned, and  *)
(* what it found and left on disk.  r is the operator's result; dir is the *)
(* directory the call resolved and target the path it returns or fetches.  *)
(* rep says that the call repeats the one before it, argument for          *)
(* argument, and the prev fields then say what that one did.               *)

NamesOrNone == FileNames \cup {None}

NoCall ==
    [op |-> "none", args |-> <<>>, ensure_exists |-> FALSE, force |-> FALSE,
     src |-> <<>>, dir |-> NoPath, target |-> NoPath, ret |-> NoPath,
     raised |-> FALSE, fetches |-> 0, parentAtFetch |-> TRUE,
     existed |-> FALSE, before |-> NoContent, dirExisted |-> FALSE,
     dirsSame |-> TRUE, filesSame |-> TRUE,
     rep |-> FALSE, prevRet |-> NoPath, prevRaised |-> FALSE,
     prevFetches |-> 0, prevExisted |-> FALSE]

Repeats(op, args) == last.op = op /\ last.args = args

Resolved(op, args, ensure_exists, dir, r) ==
    [op |-> op, args |-> args, ensure_exists |-> ensure_exists,
     force |-> FALSE, src |-> <<>>, dir |-> dir, target |-> r.path,
     ret |-> r.path, raised |-> FALSE, fetches |-> 0, parentAtFetch |-> TRUE,
     existed |-> Exists(dirs, files, r.path), before |-> NoContent,
     dirExisted |-> dir \in dirs,
     dirsSame |-> r.dirs = dirs, filesSame |-> TRUE,
     rep |-> Repeats(op, args),
     prevRet |-> IF Repeats(op, args) THEN last.ret ELSE NoPath,
     prevRaised |-> Repeats(op, args) /\ last.raised,
     prevFetches |-> IF Repeats(op, args) THEN last.fetches ELSE 0,
     prevExisted |-> Repeats(op, args) /\ last.existed]

Ensured(op, args, src, force, r) ==
    [op |-> op, args |-> args, ensure_exists |-> TRUE, force |-> force,
     src |-> src, dir |-> Parent(r.target), target |-> r.target,
     ret |-> r.path, raised |-> r.raised, fetches |-> r.fetches,
     parentAtFetch |-> r.parentAtFetch,
     existed |-> Exists(dirs, files, r.target),
     before |-> IF r.target \in DOMAIN files THEN files[r.target]
                ELSE NoContent,
     dirExisted |-> Parent(r.target) \in dirs,
     dirsSame |-> r.dirs = dirs, filesSame |-> r.files = files,
     rep |-> Repeats(op, args),
     prevRet |-> IF Repeats(op, args) THEN last.ret ELSE NoPath,
     prevRaised |-> Repeats(op, args) /\ last.raised,
     prevFetches |-> IF Repeats(op, args) THEN last.fetches ELSE 0,
     prevExisted |-> Repeats(op, args) /\ last.existed]

----------------------------------------------------------------------------
(* The state machine: one action per call. *)

Init ==
    /\ dirs = {<<>>}
    /\ files = <<>>
    /\ patched = FALSE
    /\ mod = NoModule
    /\ last = NoCall
    /\ ncalls = 0
    /\ env = TestEnv
    /\ procs = NoProcs

\* Module.from_key(key, *subkeys, ensure_exists=ee); the caller keeps the Module
CallFromKey ==
    /\ ncalls < MaxCalls
    /\ \E key \in Keys, sk \in SubkeySeqs, ee \in BOOLEAN :
         LET r == FromKey(dirs, key, sk, ee)
         IN  /\ dirs' = r.dirs
             /\ mod' = r.path
             /\ last' = Resolved("from_key", <<key, sk, ee>>, ee, r.path, r)
    /\ ncalls' = ncalls + 1
    /\ UNCHANGED <<files, patched, env, procs>>

\* mod.module(*subkeys, ensure_exists=ee); the caller keeps the child
CallModule ==
    /\ ncalls < MaxCalls
    /\ mod # NoModule
    /\ \E sk \in SubkeySeqs, ee \in BOOLEAN :
         LET r == ModuleModule(dirs, mod, sk, ee)
         IN  /\ dirs' = r.dirs
             /\ mod' = r.path
             /\ last' = Resolved("module", <<mod, sk, ee>>, ee, r.path, r)
    /\ ncalls' = ncalls + 1
    /\ UNCHANGED <<files, patched, env, procs>>

\* mod.join(*subkeys, name=name, ensure_exists=ee)
CallJoin ==
    /\ ncalls < MaxCalls
    /\ mod # NoModule
    /\ \E sk \in SubkeySeqs, name \in NamesOrNone, ee \in BOOLEAN :
         LET r == ModuleJoin(dirs, mod, sk, name, ee)
         IN  /\ dirs' = r.dirs
             /\ last' = Resolved("join", <<mod, sk, name, ee>>, ee,
                             mod \o sk, r)
    /\ ncalls' = ncalls + 1
    /\ UNCHANGED <<files, patched, mod, env, procs>>

\* pystow.join(key, *subkeys, name=name, ensure_exists=ee)
CallApiJoin ==
    /\ ncalls < MaxCalls
    /\ \E key \in Keys, sk \in SubkeySeqs, name \in NamesOrNone,
          ee \in BOOLEAN :
         LET r == ApiJoin(dirs, key, sk, name, ee)
         IN  /\ dirs' = r.dirs
             /\ last' = Resolved("api.join", <<key, sk, name, ee>>, ee,
                                 get_base(key) \o sk, r)
    /\ ncalls' = ncalls + 1
    /\ UNCHANGED <<files, patched, mod, env, procs>>

\* mod.ensure(*subkeys, url=url, name=name, force=force)
CallEnsure ==
    /\ ncalls < MaxCalls
    /\ mod # NoModule
    /\ \E sk \in SubkeySeqs, url \in Urls, name \in NamesOrNone,
          force \in BOOLEAN, ok \in BOOLEAN :
         LET r == ModuleEnsure(dirs, files, mod, sk, url, name, force, ok)
         IN  /\ dirs' = r.dirs
             /\ files' = r.files
             /\ last' = Ensured("ensure", <<mod, sk, url, name, force>>,
                            <<url>>, force, r)
    /\ ncalls' = ncalls + 1
    /\ UNCHANGED <<patched, mod, env, procs>>

\* pystow.ensure(key, *subkeys, url=url, name=name, force=force)
CallApiEnsure ==
    /\ ncalls < MaxCalls
    /\ \E key \in Keys, sk \in SubkeySeqs, url \in Urls, name \in NamesOrNone,
          force \in BOOLEAN, ok \in BOOLEAN :
         LET r == ApiEnsure(dirs, files, key, sk, url, name, force, ok)
         IN  /\ dirs' = r.dirs
             /\ files' = r.files
             /\ last' = Ensured("api.ensure", <<key, sk, url, name, force>>,
                                <<url>>, force, r)
    /\ ncalls' = ncalls + 1
    /\ UNCHANGED <<patched, mod, env, procs>>

\* mod.ensure_from_s3(*subkeys, s3_bucket=..., s3_key=key, name=name, force=force)
CallEnsureFromS3 ==
    /\ ncalls < MaxCalls
    /\ mod # NoModule
    /\ \E sk \in SubkeySeqs, key \in S3Keys, name \in NamesOrNone,
          force \in BOOLEAN, ok \in BOOLEAN :
         LET r == ModuleEnsureFromS3(dirs, files, mod, sk, key, name,
                                     force, ok)
         IN  /\ dirs' = r.dirs
             /\ files' = r.files
             /\ last' = Ensured("ensure_from_s3",
                            <<mod, sk, key, name, force>>,
                            key.parts, force, r)
    /\ ncalls' = ncalls + 1
    /\ UNCHANGED <<patched, mod, env, procs>>

\* mod.ensure_from_google(*subkeys, name=name, file_id=id, force=force)
CallEnsureFromGoogle ==
    /\ ncalls < MaxCalls
    /\ mod # NoModule
    /\ \E sk \in SubkeySeqs, name \in FileNames, id \in FileIds,
          force \in BOOLEAN, ok \in BOOLEAN :
         LET r == ModuleEnsureFromGoogle(dirs, files, mod, sk, name, id,
                                         force, ok)
         IN  /\ dirs' = r.dirs
             /\ files' = r.files
             /\ last' = Ensured("ensure_from_google",
                            <<mod, sk, id, name, force>>,
                            << <<id>> >>, force, r)
    /\ ncalls' = ncalls + 1
    /\ UNCHANGED <<patched, mod, env, procs>>

\* pystow.ensure_from_s3(key, *subkeys, s3_bucket=..., s3_key=s3_key,
\* name=name, force=force)
CallApiEnsureFromS3 ==
    /\ ncalls < MaxCalls
    /\ \E key \in Keys, sk \in SubkeySeqs, s3_key \in S3Keys,
          name \in NamesOrNone, force \in BOOLEAN, ok \in BOOLEAN :
         LET r == ApiEnsureFromS3(dirs, files, key, sk, s3_key, name,
                                  force, ok)
         IN  /\ dirs' = r.dirs
             /\ files' = r.files
             /\ last' = Ensured("api.ensure_from_s3",
                                <<key, sk, s3_key, name, force>>,
                                s3_key.parts, force, r)
    /\ ncalls' = ncalls + 1
    /\ UNCHANGED <<patched, mod, env, procs>>

\* pystow.ensure_from_google(key, *subkeys, name=name, file_id=id, force=force)
CallApiEnsureFromGoogle ==
    /\ ncalls < MaxCalls
    /\ \E key \in Keys, sk \in SubkeySeqs, name \in FileNames, id \in FileIds,
          force \in BOOLEAN, ok \in BOOLEAN :
         LET r == ApiEnsureFromGoogle(dirs, files, key, sk, name, id,
                                      force, ok)
         IN  /\ dirs' = r.dirs
             /\ files' = r.files
             /\ last' = Ensured("api.ensure_from_google",
                                <<key, sk, id, name, force>>,
                                << <<id>> >>, force, r)
    /\ ncalls' = ncalls + 1
    /\ UNCHANGED <<patched, mod, env, procs>>

Next ==
    \/ CallFromKey
    \/ CallModule
    \/ CallJoin
    \/ CallApiJoin
    \/ CallEnsure
    \/ CallApiEnsure
    \/ CallEnsureFromS3
    \/ CallEnsureFromGoogle
    \/ CallApiEnsureFromS3
    \/ CallApiEnsureFromGoogle

Spec == Init /\ [][Next]_vars

\* The test suite's arrangement: every call is made inside
\* "with self.mock_download():".
InitMocked ==
    /\ dirs = {<<>>}
    /\ files = <<>>
    /\ patched = TRUE
    /\ mod = NoModule
    /\ last = NoCall
    /\ ncalls = 0
    /\ env = TestEnv
    /\ procs = NoProcs

SpecMocked == InitMocked /\ [][Next]_vars

----------------------------------------------------------------------------
(* The claims.  Each is a predicate on the record of the last call and the *)
(* file system that call left.                                             *)

UrlEnsureOps == {"ensure", "api.ensure"}
S3EnsureOps == {"ensure_from_s3", "api.ensure_from_s3"}
GoogleEnsureOps == {"ensure_from_google", "api.ensure_from_google"}
EnsureOps == UrlEnsureOps \cup S3EnsureOps \cup GoogleEnsureOps
ApiOps == {"from_key", "api.join", "api.ensure", "api.ensure_from_s3",
           "api.ensure_from_google"}
KeyResolveOps == {"from_key", "api.join"}
ResolveOps == KeyResolveOps \cup {"module", "join"}

\* The base directory of the last call: the Module's for a method, and
\* <home>/<key> for a top-level function.
BaseOf(c) ==
    IF c.op \in ApiOps
    THEN Home \o <<c.args[1]>>
    ELSE c.args[1]

\* C1: when the target path exists and ensure (Module.ensure, pystow.ensure,
\* with pystow.utils.download in place) is called with force=false, no fetch
\* is performed, no file changes, and the existing target path is returned.
C1_ExistingNotRefetched ==
    (last.op \in UrlEnsureOps /\ ~patched /\ last.existed /\ ~last.force)
        => /\ last.fetches = 0
           /\ last.filesSame
           /\ last.target \in DOMAIN files
           /\ files[last.target] = last.before
           /\ ~last.raised
           /\ last.ret = last.target

C1_Witness ==
    /\ last.op \in UrlEnsureOps /\ ~patched /\ last.existed /\ ~last.force
    /\ last.ret \in DOMAIN files

\* C2 as stated: from a missing target, two calls of ensure(force=false)
\* with the same arguments under the tests' mock invoke the fetch once in
\* all, and the second call returns the same path without a fetch.
C2_MockFetchedOnce ==
    (/\ last.op \in UrlEnsureOps /\ patched /\ last.rep /\ ~last.force
     /\ ~last.prevExisted /\ ~last.prevRaised)
        => /\ last.prevFetches + last.fetches = 1
           /\ last.fetches = 0
           /\ last.ret = last.prevRet

\* C2 amended: from a missing target, of two calls of ensure(force=false)
\* with the same arguments under the tests' mock each invokes the mock (two
\* fetches in all, the second writing the file anew), and the second call
\* returns the same path as the first.
C2_MockFetchedTwice ==
    (/\ last.op \in UrlEnsureOps /\ patched /\ last.rep /\ ~last.force
     /\ ~last.prevExisted /\ ~last.prevRaised)
        => /\ ~last.raised
           /\ last.ret = last.prevRet
           /\ last.prevFetches = 1
           /\ last.fetches = 1
           /\ last.existed /\ ~last.filesSame

C2_Witness ==
    /\ last.op \in UrlEnsureOps /\ patched /\ last.rep /\ ~last.force
    /\ ~last.prevExisted /\ ~last.prevRaised
    /\ last.fetches = 1 /\ last.existed

\* What a fetch of the last call wrote: the source it names (an S3 key
\* joined) and the number of the call.
Fetched(c) ==
    Content(IF c.op \in S3EnsureOps THEN <<Flatten(c.src)>> ELSE c.src,
            ncalls)

\* C3: a call of ensure, ensure_from_s3 or ensure_from_google with
\* force=true (download not mocked) starts a fetch whether or not the target
\* exists, and when it returns the target holds what that fetch wrote, not
\* what it held before.
C3_ForceFetchesAgain ==
    (last.op \in EnsureOps /\ ~patched /\ last.force)
        => /\ last.fetches = 1
           /\ ~last.raised =>
                /\ last.target \in DOMAIN files
                /\ files[last.target] = Fetched(last)
                /\ files[last.target] # last.before

C3_Witness ==
    /\ last.op = "api.ensure_from_s3" /\ ~patched /\ last.force
    /\ last.existed /\ ~last.raised
    /\ files[last.target] # last.before

\* C4 as stated: whenever an ensure call starts a fetch, the parent
\* directory of the target exists at that moment.
C4_ParentExistsAtFetch ==
    (last.op \in EnsureOps /\ last.fetches > 0) => last.parentAtFetch

FinalSegment(segments) == segments[Len(segments)]

\* The file name C6 expects of the last call.
ExpectedName(c) ==
    IF c.args[4] # None THEN c.args[4]
    ELSE IF c.op \in S3EnsureOps THEN FinalSegment(Flatten(c.args[3].parts))
    ELSE FinalSegment(c.args[3])

\* C6: the target of ensure and ensure_from_s3 is the module directory
\* joined with the subkeys and the file name, the caller's name when given
\* and else the final segment of the URL or of the S3 key (a sequence key
\* joined with "/" first).
C6_TargetPath ==
    last.op \in UrlEnsureOps \cup S3EnsureOps
        => last.target = BaseOf(last) \o last.args[2] \o <<ExpectedName(last)>>

C6_Witness ==
    /\ last.op = "ensure_from_s3"
    /\ ~last.args[3].str /\ last.args[4] = None /\ last.args[2] = <<"a", "b">>
    /\ ~last.raised /\ last.ret = last.target

\* C7: resolving a key and subkeys twice with ensure_exists=true
\* (Module.from_key, pystow.join) returns the same path both times; the
\* directory exists once the first call is over, and the second call
\* neither fails nor changes the file system.
C7_ResolveTwice ==
    (last.op \in KeyResolveOps /\ last.rep /\ last.ensure_exists)
        => /\ last.ret = last.prevRet
           /\ ~last.raised
           /\ last.dirExisted
           /\ last.dirsSame /\ last.filesSame
           /\ last.dir \in dirs

C7_Witness ==
    /\ last.op = "from_key" /\ last.rep /\ last.ensure_exists
    /\ ~last.prevExisted /\ last.dirExisted /\ last.args[2] = <<"a", "b">>

\* C8 as stated: after a resolution with ensure_exists=true every level of
\* the resolved directory exists.
C8_AllLevelsExist ==
    (last.op \in ResolveOps /\ last.ensure_exists)
        => Prefixes(last.dir) \subseteq dirs

\* The path C9 and C10 expect a resolution to return.
ExpectedResolved(c) ==
    IF c.op \in {"join", "api.join"} /\ c.args[3] # None
    THEN BaseOf(c) \o c.args[2] \o <<c.args[3]>>
    ELSE BaseOf(c) \o c.args[2]

\* C9: a resolution with ensure_exists=false returns the computed path,
\* whether or not it exists, and leaves the file system as it was.
C9_NoCreation ==
    (last.op \in ResolveOps /\ ~last.ensure_exists)
        => /\ last.dirsSame /\ last.filesSame
           /\ ~last.raised
           /\ last.ret = ExpectedResolved(last)

C9_Witness ==
    /\ last.op \in ResolveOps /\ ~last.ensure_exists
    /\ ~Exists(dirs, files, last.ret) /\ last.args[2] = <<"a", "b">>

\* C10: pystow.join(key, s1, ..., sn, name=f) returns
\* <home>/key/s1/.../sn/f: the subkeys in the order given, each once, and
\* the name, when given, last.
C10_JoinLayout ==
    last.op = "api.join"
        => last.ret = Home \o <<last.args[1]>> \o last.args[2]
                        \o (IF last.args[3] # None THEN <<last.args[3]>>
                            ELSE <<>>)

C10_Witness ==
    /\ last.op = "api.join"
    /\ last.args[2] = <<"a", "b">> /\ last.args[3] = "n"
    /\ last.ret = <<"home", last.args[1], "a", "b", "n">>

----------------------------------------------------------------------------
(* The environment.  Between two calls the process may set a variable of   *)
(* its environment or delete it (os.environ, the tests' mock_envvar).      *)

EnvChanged(what, var, value) ==
    [NoCall EXCEPT !.op = what, !.args = <<var, value>>]

\* os.environ[var] = value
SetEnv ==
    /\ \E var \in EnvVars :
         \E value \in (IF var = HomeEnvVar THEN {Home} ELSE OverrideRoots) :
            /\ env[var] # value
            /\ env' = [env EXCEPT ![var] = value]
            /\ last' = EnvChanged("setenv", var, value)
    /\ UNCHANGED <<dirs, files, patched, mod, ncalls, procs>>

\* del os.environ[var]
UnsetEnv ==
    /\ \E var \in EnvVars :
            /\ env[var] # NoPath
            /\ env' = [env EXCEPT ![var] = NoPath]
            /\ last' = EnvChanged("unsetenv", var, NoPath)
    /\ UNCHANGED <<dirs, files, patched, mod, ncalls, procs>>

NextEnv ==
    \/ SetEnv
    \/ UnsetEnv
    \/ CallFromKey
    \/ CallJoin
    \/ CallApiJoin

\* Resolutions in an environment that changes between them.
SpecEnv == Init /\ [][NextEnv]_vars

\* The root C11 expects for a key in the environment as it is now.
ExpectedRoot(key) ==
    CASE env[<<Upper(key), "_HOME">>] # NoPath -> env[<<Upper(key), "_HOME">>]
      [] env[<<Upper(key), "_HOME">>] = NoPath /\ env[HomeEnvVar] # NoPath
            -> env[HomeEnvVar] \o <<key>>
      [] OTHER -> DefaultHome \o <<key>>

\* C11: a resolution by key (Module.from_key, pystow.join) is rooted at the
\* value that <KEY>_HOME has when the call is made if it is set, else under
\* the home directory of PYSTOW_HOME, else under the built-in default; a
\* Module made earlier keeps the base it was made with.
C11_RootFromEnvironment ==
    last.op \in KeyResolveOps
        => /\ last.dir = ExpectedRoot(last.args[1]) \o last.args[2]
           /\ last.ret = last.dir \o (IF last.op = "api.join"
                                         /\ last.args[3] # None
                                      THEN <<last.args[3]>> ELSE <<>>)
           /\ last.op = "from_key" => mod = last.dir

\* The override of k1 was set when the Module was made and is unset now:
\* pystow.join resolves k1 under the home directory again.
C11_Witness ==
    /\ last.op = "api.join" /\ last.args[1] = "k1"
    /\ mod \in OverrideRoots
    /\ env[EnvVarOf("k1")] = NoPath
    /\ last.dir = Home \o <<"k1">> \o last.args[2]
    /\ last.dir # mod \o last.args[2]

----------------------------------------------------------------------------
(* The format adapters: open, and load, dump and ensure for tables, JSON   *)
(* and pickles.  A Python value is its type and its cells; the bytes of a  *)
(* file are the encoding they are in, the separator of a table, and the    *)
(* value encoded.  A file written by a dump holds its bytes; a fetched     *)
(* file holds what its URL serves.                                         *)

NoValue == [type |-> "none", data |-> <<>>]
NoBytes == [enc |-> "none", sep |-> "", data |-> NoValue]
NoError == "None"

\* The resources of the tests: a table of three columns and two rows, a
\* JSON object, and a pickled list of rows.
TestTable ==
    [type |-> "table",
     data |-> <<<<"h1", "h2", "h3">>, <<"v1_1", "v1_2", "v1_3">>,
                <<"v2_1", "v2_2", "v2_3">>>>]
TestDict == [type |-> "dict", data |-> <<<<"key", "value">>>>]
TestRows == [type |-> "rows", data |-> TestTable.data]

TsvUrl == <<"r", "test_1.tsv">>
JsonUrl == <<"r", "test_1.json">>
PickleUrl == <<"r", "test_1.pkl">>

\* DataFrame.to_csv(sep=sep, index=index): with index a first column of
\* row labels is written.
to_csv(obj, sep, index) ==
    [enc |-> "sv", sep |-> sep,
     data |-> IF index
              THEN [obj EXCEPT !.data =
                       [i \in DOMAIN @ |->
                           <<IF i = 1 THEN "" ELSE "label">> \o @[i]]]
              ELSE obj]

\* json.dump and pickle.dump
json_dump(obj) == [enc |-> "json", sep |-> "", data |-> obj]
pickle_dump(obj) == [enc |-> "pickle", sep |-> "", data |-> obj]

\* pandas.read_csv(sep=sep): cells are split at sep; bytes that are no
\* table with this separator come out as a table of one unsplit column.
read_csv(bytes, sep) ==
    IF bytes.enc = "sv" /\ bytes.sep = sep
    THEN [val |-> bytes.data, error |-> NoError]
    ELSE [val |-> [type |-> "table", data |-> <<<<"unsplit">>>>],
          error |-> NoError]

\* json.load
json_load(bytes) ==
    IF bytes.enc = "json"
    THEN [val |-> bytes.data, error |-> NoError]
    ELSE [val |-> NoValue, error |-> "JSONDecodeError"]

\* pickle.load, which needs a file opened in binary mode
pickle_load(bytes, mode) ==
    IF mode # "rb" THEN [val |-> NoValue, error |-> "TypeError"]
    ELSE IF bytes.enc = "pickle" THEN [val |-> bytes.data, error |-> NoError]
    ELSE [val |-> NoValue, error |-> "UnpicklingError"]

\* What the URLs serve (the tests' MOCK_FILES).
Served(url) ==
    CASE url = TsvUrl -> to_csv(TestTable, "\t", FALSE)
      [] url = JsonUrl -> json_dump(TestDict)
      [] url = PickleUrl -> pickle_dump(TestRows)
      [] OTHER -> NoBytes

\* The content of a file written by this process, and the bytes of a file.
Written(bytes, call) == [src |-> <<>>, call |-> call, bytes |-> bytes]
Bytes(c) == IF c.src = <<>> THEN c.bytes ELSE Served(c.src[1])

\* Path.open(mode=mode): reading needs the file; writing needs its parent
\* directory and leaves the file empty.
PathOpen(d, f, path, mode) ==
    IF mode \in {"r", "rb"}
    THEN [files |-> f,
          error |-> IF path \in DOMAIN f THEN NoError
                    ELSE "FileNotFoundError"]
    ELSE IF Parent(path) \in d /\ path \notin d
    THEN [files |-> [p \in DOMAIN f \cup {path} |->
                        IF p = path THEN Written(NoBytes, ncalls + 1)
                        ELSE f[p]],
          error |-> NoError]
    ELSE [files |-> f, error |-> "FileNotFoundError"]

\* What an adapter hands back: the file system it leaves, the path it
\* worked on, the value it returns (NoValue when it raised) and the error.
Result(d, f, path, val, error) ==
    [dirs |-> d, files |-> f, path |-> path,
     val |-> IF error = NoError THEN val ELSE NoValue, error |-> error]

\* a file that is missing is made empty and opened
ModuleOpenCreates(d, f, base, subkeys, name, mode, ensure_exists) ==
    LET j == ModuleJoin(d, base, subkeys, name, ensure_exists)
        o == PathOpen(j.dirs, f, j.path, "w")
    IN  Result(j.dirs, IF j.path \in DOMAIN f THEN f ELSE o.files,
               j.path, NoValue, o.error)

\* Module.open: the handle is the path with the file system at the open
ModuleOpen(d, f, base, subkeys, name, mode, ensure_exists) ==
    LET j == ModuleJoin(d, base, subkeys, name, ensure_exists)
        o == PathOpen(j.dirs, f, j.path, mode)
    IN  Result(j.dirs, o.files, j.path, NoValue, o.error)

\* api.open
ApiOpen(d, f, key, subkeys, name, mode) ==
    LET m == FromKey(d, key, <<>>, TRUE)
    IN  ModuleOpen(m.dirs, f, m.path, subkeys, name, mode, FALSE)

\* The value read from an opened file by a parser, or the error of the open.
Parsed(h, p) ==
    IF h.error # NoError THEN h
    ELSE Result(h.dirs, h.files, h.path, p.val, p.error)

\* Module.load_df
ModuleLoadDf(d, f, base, subkeys, name) ==
    LET h == ModuleOpen(d, f, base, subkeys, name, "r", FALSE)
    IN  IF h.error # NoError THEN h
        ELSE Parsed(h, read_csv(Bytes(h.files[h.path]), "\t"))

\* Module.load_json
ModuleLoadJson(d, f, base, subkeys, name) ==
    LET h == ModuleOpen(d, f, base, subkeys, name, "r", TRUE)
    IN  IF h.error # NoError THEN h
        ELSE Parsed(h, json_load(Bytes(h.files[h.path])))

\* Module.load_pickle
ModuleLoadPickle(d, f, base, subkeys, name) ==
    LET h == ModuleOpen(d, f, base, subkeys, name, "rb", FALSE)
    IN  IF h.error # NoError THEN h
        ELSE Parsed(h, pickle_load(Bytes(h.files[h.path]), "rb"))

\* api.load_df, api.load_json, api.load_pickle
ApiLoadDf(d, f, key, subkeys, name) ==
    LET m == FromKey(d, key, <<>>, TRUE)
    IN  ModuleLoadDf(m.dirs, f, m.path, subkeys, name)

ApiLoadJson(d, f, key, subkeys, name) ==
    LET m == FromKey(d, key, <<>>, TRUE)
    IN  ModuleLoadJson(m.dirs, f, m.path, subkeys, name)

ApiLoadPickle(d, f, key, subkeys, name) ==
    LET m == FromKey(d, key, <<>>, TRUE)
    IN  ModuleLoadPickle(m.dirs, f, m.path, subkeys, name)

\* The file system after bytes are written to an opened path.
WriteTo(h, bytes) ==
    IF h.error # NoError THEN h
    ELSE Result(h.dirs,
                [p \in DOMAIN h.files \cup {h.path} |->
                    IF p = h.path THEN Written(bytes, ncalls + 1)
                    ELSE h.files[p]],
                h.path, NoValue, NoError)

\* Module.dump_df: to_csv opens the path itself
ModuleDumpDf(d, f, base, subkeys, name, obj) ==
    LET j == ModuleJoin(d, base, subkeys, name, TRUE)
        o == PathOpen(j.dirs, f, j.path, "w")
    IN  WriteTo(Result(j.dirs, o.files, j.path, NoValue,
                       IF o.error = NoError THEN NoError ELSE "OSError"),
                to_csv(obj, "\t", FALSE))

\* Module.dump_json
ModuleDumpJson(d, f, base, subkeys, name, obj) ==
    WriteTo(ModuleOpen(d, f, base, subkeys, name, "w", TRUE), json_dump(obj))

\* Module.dump_pickle
ModuleDumpPickle(d, f, base, subkeys, name, obj) ==
    WriteTo(ModuleOpen(d, f, base, subkeys, name, "wb", FALSE),
            pickle_dump(obj))

\* api.dump_df, api.dump_json, api.dump_pickle
ApiDumpDf(d, f, key, subkeys, name, obj) ==
    LET m == FromKey(d, key, <<>>, TRUE)
    IN  ModuleDumpDf(m.dirs, f, m.path, subkeys, name, obj)

ApiDumpJson(d, f, key, subkeys, name, obj) ==
    LET m == FromKey(d, key, <<>>, TRUE)
    IN  ModuleDumpJson(m.dirs, f, m.path, subkeys, name, obj)

ApiDumpPickle(d, f, key, subkeys, name, obj) ==
    LET m == FromKey(d, key, <<>>, TRUE)
    IN  ModuleDumpPickle(m.dirs, f, m.path, subkeys, name, obj)

\* Module.ensure_open
ModuleEnsureOpen(d, f, base, subkeys, url, name, force, ok, mode) ==
    LET e == ModuleEnsure(d, f, base, subkeys, url, name, force, ok)
    IN  IF e.raised
        THEN Result(e.dirs, e.files, e.target, NoValue, "TransferError")
        ELSE Result(e.dirs, e.files, e.path, NoValue,
                    PathOpen(e.dirs, e.files, e.path, mode).error)

\* the table read with commas for the separator
ModuleEnsureCsvCommas(d, f, base, subkeys, url, name, force, ok) ==
    LET e == ModuleEnsure(d, f, base, subkeys, url, name, force, ok)
    IN  IF e.raised
        THEN Result(e.dirs, e.files, e.target, NoValue, "TransferError")
        ELSE Parsed(Result(e.dirs, e.files, e.path, NoValue, NoError),
                    read_csv(Bytes(e.files[e.path]), ","))

\* Module.ensure_csv: read_csv opens the path itself
ModuleEnsureCsv(d, f, base, subkeys, url, name, force, ok) ==
    LET e == ModuleEnsure(d, f, base, subkeys, url, name, force, ok)
    IN  IF e.raised
        THEN Result(e.dirs, e.files, e.target, NoValue, "TransferError")
        ELSE Parsed(Result(e.dirs, e.files, e.path, NoValue, NoError),
                    read_csv(Bytes(e.files[e.path]), "\t"))

\* Module.ensure_json
ModuleEnsureJson(d, f, base, subkeys, url, name, force, ok) ==
    LET h == ModuleEnsureOpen(d, f, base, subkeys, url, name, force, ok, "r")
    IN  IF h.error # NoError THEN h
        ELSE Parsed(h, json_load(Bytes(h.files[h.path])))

\* Module.ensure_pickle
ModuleEnsurePickle(d, f, base, subkeys, url, name, force, ok) ==
    LET h == ModuleEnsureOpen(d, f, base, subkeys, url, name, force, ok, "rb")
    IN  IF h.error # NoError THEN h
        ELSE Parsed(h, pickle_load(Bytes(h.files[h.path]), "rb"))

\* api.ensure_csv, api.ensure_json, api.ensure_pickle
ApiEnsureCsv(d, f, key, subkeys, url, name, force, ok) ==
    LET m == FromKey(d, key, <<>>, TRUE)
    IN  ModuleEnsureCsv(m.dirs, f, m.path, subkeys, url, name, force, ok)

ApiEnsureJson(d, f, key, subkeys, url, name, force, ok) ==
    LET m == FromKey(d, key, <<>>, TRUE)
    IN  ModuleEnsureJson(m.dirs, f, m.path, subkeys, url, name, force, ok)

ApiEnsurePickle(d, f, key, subkeys, url, name, force, ok) ==
    LET m == FromKey(d, key, <<>>, TRUE)
    IN  ModuleEnsurePickle(m.dirs, f, m.path, subkeys, url, name, force, ok)

----------------------------------------------------------------------------
(* The adapters as calls.  The record of a call says what was called for  *)
(* which key, subkeys and file name, the object handed in, the path worked *)
(* on, the value returned and the error raised; when the call before it    *)
(* worked on the same path, the prev fields say what that one did.         *)

AdapterSubkeys == {<<>>, <<"a">>}
\* The file names of a call: the final segments of the URLs.
AdapterNames == {"test_1.tsv", "test_1.json", "test_1.pkl"}
Tables == {TestTable}
JsonObjects == {TestDict}
Picklables == {TestRows}

Follows(r) == last.op \notin {"none", "setenv", "unsetenv"} /\ last.path = r.path

Adapted(op, args, obj, r) ==
    [op |-> op, args |-> args, obj |-> obj, path |-> r.path,
     val |-> r.val, error |-> r.error,
     existed |-> r.path \in DOMAIN files,
     dirsSame |-> r.dirs = dirs,
     filesSame |-> DOMAIN r.files = DOMAIN files
                     /\ \A p \in DOMAIN files : r.files[p].call = files[p].call,
     prevOp |-> IF Follows(r) THEN last.op ELSE "none",
     prevArgs |-> IF Follows(r) THEN last.args ELSE <<>>,
     prevObj |-> IF Follows(r) THEN last.obj ELSE NoValue,
     prevVal |-> IF Follows(r) THEN last.val ELSE NoValue,
     prevError |-> IF Follows(r) THEN last.error ELSE NoError]

\* with pystow.open(key, *subkeys, name=name, mode=mode): pass
CallApiOpen ==
    /\ ncalls < MaxCalls
    /\ \E key \in Keys, sk \in AdapterSubkeys, name \in AdapterNames,
          mode \in {"r", "w"} :
         LET r == ApiOpen(dirs, files, key, sk, name, mode)
         IN  /\ dirs' = r.dirs
             /\ files' = r.files
             /\ last' = Adapted("api.open", <<key, sk, name, mode>>,
                                NoValue, r)
    /\ ncalls' = ncalls + 1
    /\ UNCHANGED <<patched, mod, env, procs>>

\* pystow.load_df(key, *subkeys, name=name)
CallApiLoadDf ==
    /\ ncalls < MaxCalls
    /\ \E key \in Keys, sk \in AdapterSubkeys, name \in AdapterNames :
         LET r == ApiLoadDf(dirs, files, key, sk, name)
         IN  /\ dirs' = r.dirs
             /\ files' = r.files
             /\ last' = Adapted("api.load_df", <<key, sk, name>>, NoValue, r)
    /\ ncalls' = ncalls + 1
    /\ UNCHANGED <<patched, mod, env, procs>>

\* pystow.load_json(key, *subkeys, name=name)
CallApiLoadJson ==
    /\ ncalls < MaxCalls
    /\ \E key \in Keys, sk \in AdapterSubkeys, name \in AdapterNames :
         LET r == ApiLoadJson(dirs, files, key, sk, name)
         IN  /\ dirs' = r.dirs
             /\ files' = r.files
             /\ last' = Adapted("api.load_json", <<key, sk, name>>, NoValue, r)
    /\ ncalls' = ncalls + 1
    /\ UNCHANGED <<patched, mod, env, procs>>

\* pystow.load_pickle(key, *subkeys, name=name)
CallApiLoadPickle ==
    /\ ncalls < MaxCalls
    /\ \E key \in Keys, sk \in AdapterSubkeys, name \in AdapterNames :
         LET r == ApiLoadPickle(dirs, files, key, sk, name)
         IN  /\ dirs' = r.dirs
             /\ files' = r.files
             /\ last' = Adapted("api.load_pickle", <<key, sk, name>>, NoValue, r)
    /\ ncalls' = ncalls + 1
    /\ UNCHANGED <<patched, mod, env, procs>>

\* pystow.dump_df(key, *subkeys, name=name, obj=obj)
CallApiDumpDf ==
    /\ ncalls < MaxCalls
    /\ \E key \in Keys, sk \in AdapterSubkeys, name \in AdapterNames,
          obj \in Tables :
         LET r == ApiDumpDf(dirs, files, key, sk, name, obj)
         IN  /\ dirs' = r.dirs
             /\ files' = r.files
             /\ last' = Adapted("api.dump_df", <<key, sk, name>>, obj, r)
    /\ ncalls' = ncalls + 1
    /\ UNCHANGED <<patched, mod, env, procs>>

\* pystow.dump_json(key, *subkeys, name=name, obj=obj)
CallApiDumpJson ==
    /\ ncalls < MaxCalls
    /\ \E key \in Keys, sk \in AdapterSubkeys, name \in AdapterNames,
          obj \in JsonObjects :
         LET r == ApiDumpJson(dirs, files, key, sk, name, obj)
         IN  /\ dirs' = r.dirs
             /\ files' = r.files
             /\ last' = Adapted("api.dump_json", <<key, sk, name>>, obj, r)
    /\ ncalls' = ncalls + 1
    /\ UNCHANGED <<patched, mod, env, procs>>

\* pystow.dump_pickle(key, *subkeys, name=name, obj=obj)
CallApiDumpPickle ==
    /\ ncalls < MaxCalls
    /\ \E key \in Keys, sk \in AdapterSubkeys, name \in AdapterNames,
          obj \in Picklables :
         LET r == ApiDumpPickle(dirs, files, key, sk, name, obj)
         IN  /\ dirs' = r.dirs
             /\ files' = r.files
             /\ last' = Adapted("api.dump_pickle", <<key, sk, name>>, obj, r)
    /\ ncalls' = ncalls + 1
    /\ UNCHANGED <<patched, mod, env, procs>>

\* pystow.ensure_csv(key, *subkeys, url=url, force=force)
CallApiEnsureCsv ==
    /\ ncalls < MaxCalls
    /\ \E key \in Keys, sk \in AdapterSubkeys, force \in BOOLEAN,
          ok \in BOOLEAN :
         LET r == ApiEnsureCsv(dirs, files, key, sk, TsvUrl, None, force, ok)
         IN  /\ dirs' = r.dirs
             /\ files' = r.files
             /\ last' = Adapted("api.ensure_csv", <<key, sk, name_from_url(TsvUrl)>>,
                                NoValue, r)
    /\ ncalls' = ncalls + 1
    /\ UNCHANGED <<patched, mod, env, procs>>

\* pystow.ensure_json(key, *subkeys, url=url, force=force)
CallApiEnsureJson ==
    /\ ncalls < MaxCalls
    /\ \E key \in Keys, sk \in AdapterSubkeys, force \in BOOLEAN,
          ok \in BOOLEAN :
         LET r == ApiEnsureJson(dirs, files, key, sk, JsonUrl, None, force, ok)
         IN  /\ dirs' = r.dirs
             /\ files' = r.files
             /\ last' = Adapted("api.ensure_json", <<key, sk, name_from_url(JsonUrl)>>,
                                NoValue, r)
    /\ ncalls' = ncalls + 1
    /\ UNCHANGED <<patched, mod, env, procs>>

\* pystow.ensure_pickle(key, *subkeys, url=url, force=force)
CallApiEnsurePickle ==
    /\ ncalls < MaxCalls
    /\ \E key \in Keys, sk \in AdapterSubkeys, force \in BOOLEAN,
          ok \in BOOLEAN :
         LET r == ApiEnsurePickle(dirs, files, key, sk, PickleUrl, None, force, ok)
         IN  /\ dirs' = r.dirs
             /\ files' = r.files
             /\ last' = Adapted("api.ensure_pickle", <<key, sk, name_from_url(PickleUrl)>>,
                                NoValue, r)
    /\ ncalls' = ncalls + 1
    /\ UNCHANGED <<patched, mod, env, procs>>

NextAdapters ==
    \/ CallApiOpen
    \/ CallApiLoadDf
    \/ CallApiLoadJson
    \/ CallApiLoadPickle
    \/ CallApiDumpDf
    \/ CallApiDumpJson
    \/ CallApiDumpPickle
    \/ CallApiEnsureCsv
    \/ CallApiEnsureJson
    \/ CallApiEnsurePickle

\* The adapters at work in the tests' environment.
SpecAdapters == Init /\ [][NextAdapters]_vars

LoadOps == {"api.load_df", "api.load_json", "api.load_pickle"}
DumpOps == {"api.dump_df", "api.dump_json", "api.dump_pickle"}
EnsureFormatOps == {"api.ensure_csv", "api.ensure_json", "api.ensure_pickle"}

\* The call was an open for reading: pystow.open in mode "r" or load_json.
OpenedToRead(c) ==
    \/ c.op = "api.open" /\ c.args[4] = "r"
    \/ c.op = "api.load_json"

\* C12: pystow.open (in its read mode) and pystow.load_json of a key,
\* subkeys and name under which no file exists raise FileNotFoundError and
\* leave the files as they were: none is made.
C12_OpenMissingRaises ==
    (OpenedToRead(last) /\ ~last.existed)
        => /\ last.error = "FileNotFoundError"
           /\ last.val = NoValue
           /\ last.filesSame
           /\ last.path \notin DOMAIN files

\* load_json of a missing file under subkeys: it raises and makes no file,
\* and the directories of the subkeys are made on the way.
C12_Witness ==
    /\ last.op = "api.load_json" /\ ~last.existed
    /\ last.error = "FileNotFoundError"
    /\ last.args[2] # <<>> /\ ~last.dirsSame
    /\ files = <<>>

\* The dump that writes what a load reads.
DumpOf(op) ==
    CASE op = "api.load_df" -> "api.dump_df"
      [] op = "api.load_json" -> "api.dump_json"
      [] op = "api.load_pickle" -> "api.dump_pickle"

\* C13 as stated: for tables, JSON and pickles and every key, subkeys and
\* name, dump_<format> of an object followed by load_<format> with the same
\* key, subkeys and name reads the file the dump wrote and returns a value
\* equal to the object.
C13_DumpThenLoad ==
    (/\ last.op \in LoadOps
     /\ last.prevOp = DumpOf(last.op)
     /\ last.prevArgs = last.args)
        => /\ last.prevError = NoError
           /\ last.error = NoError
           /\ last.path \in DOMAIN files
           /\ files[last.path] = Written(Bytes(files[last.path]), ncalls - 1)
           /\ last.val = last.prevObj

\* The ensure that fetches what a load reads.
EnsureOf(op) ==
    CASE op = "api.load_df" -> "api.ensure_csv"
      [] op = "api.load_json" -> "api.ensure_json"
      [] op = "api.load_pickle" -> "api.ensure_pickle"

\* C14: when ensure_csv, ensure_json or ensure_pickle of a key and a URL has
\* returned a value, load_df, load_json or load_pickle of the key and the
\* final segment of the URL opens the same file and returns an equal value.
C14_EnsureThenLoad ==
    (/\ last.op \in LoadOps
     /\ last.prevOp = EnsureOf(last.op)
     /\ last.prevArgs = last.args
     /\ last.prevError = NoError)
        => /\ last.error = NoError
           /\ last.existed /\ last.filesSame
           /\ last.val = last.prevVal
           /\ last.val # NoValue

C14_Witness ==
    /\ last.op = "api.load_df" /\ last.prevOp = "api.ensure_csv"
    /\ last.args = <<"k1", <<>>, "test_1.tsv">> /\ last.prevArgs = last.args
    /\ last.path = <<"home", "k1", "test_1.tsv">>
    /\ last.val = TestTable /\ last.prevVal = TestTable
    /\ Len(last.val.data[1]) = 3

----------------------------------------------------------------------------
(* ensure_untar.  A file name is a string of characters, so that its       *)
(* suffixes are found and cut as pathlib and Python's slices do it.        *)

\* str.lstrip(".")
RECURSIVE LStripDots(_)
LStripDots(s) ==
    IF Len(s) > 0 /\ SubSeq(s, 1, 1) = "."
    THEN LStripDots(SubSeq(s, 2, Len(s)))
    ELSE s

\* The place of the first "." of s at or after place i, 0 when there is none.
RECURSIVE FirstDot(_, _)
FirstDot(s, i) ==
    IF i > Len(s) THEN 0
    ELSE IF SubSeq(s, i, i) = "." THEN i
    ELSE FirstDot(s, i + 1)

\* sum(len(suffix) for suffix in path.suffixes): pathlib gives a name that
\* ends with "." no suffixes, and else, leading dots apart, every piece
\* from the first "." on is a suffix.
suffixes_len(name) ==
    IF Len(name) > 0 /\ SubSeq(name, Len(name), Len(name)) = "." THEN 0
    ELSE LET t == LStripDots(name)
             dot == FirstDot(t, 1)
         IN  IF dot = 0 THEN 0 ELSE Len(t) - dot + 1

\* name[:-n] of Python: -0 is 0, and name[:0] is the empty string.
SliceToMinus(name, n) ==
    IF n = 0 THEN "" ELSE SubSeq(name, 1, Len(name) - n)

\* Path.joinpath(part): joining the empty string gives the path itself.
joinpath(path, part) == IF part = "" THEN path ELSE Append(path, part)

\* Path.name
PathName(path) == path[Len(path)]

\* The members of the archives the URLs serve.
Members == <<"m1", "m2">>
MemberContent(url, member, call) == Content(<<url, <<member>>>>, call)

\* only the first member is extracted, and no error is raised for it
extractallFirstOnly(f, path, directory, whole) ==
    LET made == {Append(directory, Members[1])}
    IN  IF path \notin DOMAIN f
        THEN [files |-> f, extracted |-> 0, error |-> "IsADirectoryError"]
        ELSE [files |-> [p \in DOMAIN f \cup made |->
                            IF p \in made
                            THEN MemberContent(f[path].src[1], PathName(p),
                                               ncalls + 1)
                            ELSE f[p]],
              extracted |-> 1,
              error |-> IF whole THEN NoError ELSE "ReadError"]

\* tarfile.open(path).extractall(directory): the archive must be a file;
\* every member is written under the directory; an archive that cannot be
\* read to its end (whole is false) has its first member written and then
\* raises.
extractall(f, path, directory, whole) ==
    LET n == IF whole THEN Len(Members) ELSE 1
        made == {Append(directory, Members[i]) : i \in 1..n}
    IN  IF path \notin DOMAIN f
        THEN [files |-> f, extracted |-> 0, error |-> "IsADirectoryError"]
        ELSE [files |-> [p \in DOMAIN f \cup made |->
                            IF p \in made
                            THEN MemberContent(f[path].src[1], PathName(p),
                                               ncalls + 1)
                            ELSE f[p]],
              extracted |-> n,
              error |-> IF whole THEN NoError ELSE "ReadError"]

\* The paths below a directory.
Below(directory, paths) ==
    {p \in paths : Len(p) > Len(directory)
                     /\ SubSeq(p, 1, Len(directory)) = directory}

\* What ensure_untar hands back: the directory it returns (NoPath when it
\* raised), the archive and the extraction directory, the file system it
\* leaves, what it fetched and extracted, whether the extraction directory
\* was there when it looked, and whether all below it is as the fetch left it.
Untarred(e, directory, d, f, extracted, error) ==
    [ret |-> IF error = NoError THEN directory ELSE NoPath,
     archive |-> e.target, dir |-> directory, dirs |-> d, files |-> f,
     fetches |-> e.fetches, extracted |-> extracted, error |-> error,
     dirExisted |-> directory \in e.dirs,
     belowSame |-> /\ Below(directory, d) = Below(directory, e.dirs)
                   /\ Below(directory, DOMAIN f)
                        = Below(directory, DOMAIN e.files)
                   /\ \A p \in Below(directory, DOMAIN f) : f[p] = e.files[p]]

\* the archive extracted whether or not its directory is there
ModuleEnsureUntarAlways(d, f, base, subkeys, url, name, directory, force, ok, whole) ==
    LET e == ModuleEnsure(d, f, base, subkeys, url, name, force, ok)
        dirname == IF directory = None
                   THEN SliceToMinus(PathName(e.target),
                                     suffixes_len(PathName(e.target)))
                   ELSE directory
        unzipped_path == joinpath(Parent(e.target), dirname)
        x == extractall(e.files, e.target, unzipped_path, whole)
    IN  IF e.raised
        THEN Untarred(e, unzipped_path, e.dirs, e.files, 0, "TransferError")
        ELSE IF FALSE
        THEN Untarred(e, unzipped_path, e.dirs, e.files, 0, NoError)
        ELSE IF unzipped_path \in DOMAIN e.files
        THEN Untarred(e, unzipped_path, e.dirs, e.files, 0, "FileExistsError")
        ELSE Untarred(e, unzipped_path, e.dirs \cup Prefixes(unzipped_path),
                      x.files, x.extracted, x.error)

\* a failed extraction undone: the directory and the archive removed
ModuleEnsureUntarRollsBack(d, f, base, subkeys, url, name, directory, force, ok, whole) ==
    LET e == ModuleEnsure(d, f, base, subkeys, url, name, force, ok)
        dirname == IF directory = None
                   THEN SliceToMinus(PathName(e.target),
                                     suffixes_len(PathName(e.target)))
                   ELSE directory
        unzipped_path == joinpath(Parent(e.target), dirname)
        x == extractall(e.files, e.target, unzipped_path, whole)
    IN  IF e.raised
        THEN Untarred(e, unzipped_path, e.dirs, e.files, 0, "TransferError")
        ELSE IF unzipped_path \in e.dirs /\ ~force
        THEN Untarred(e, unzipped_path, e.dirs, e.files, 0, NoError)
        ELSE IF unzipped_path \in DOMAIN e.files
        THEN Untarred(e, unzipped_path, e.dirs, e.files, 0, "FileExistsError")
        ELSE IF x.error # NoError
        THEN Untarred(e, unzipped_path, e.dirs,
                      [p \in DOMAIN e.files \ {e.target} |-> e.files[p]],
                      0, x.error)
        ELSE Untarred(e, unzipped_path, e.dirs \cup Prefixes(unzipped_path),
                      x.files, x.extracted, x.error)

\* Module.ensure_untar
ModuleEnsureUntar(d, f, base, subkeys, url, name, directory, force, ok, whole) ==
    LET e == ModuleEnsure(d, f, base, subkeys, url, name, force, ok)
        dirname == IF directory = None
                   THEN SliceToMinus(PathName(e.target),
                                     suffixes_len(PathName(e.target)))
                   ELSE directory
        unzipped_path == joinpath(Parent(e.target), dirname)
        x == extractall(e.files, e.target, unzipped_path, whole)
    IN  IF e.raised
        THEN Untarred(e, unzipped_path, e.dirs, e.files, 0, "TransferError")
        ELSE IF unzipped_path \in e.dirs /\ ~force
        THEN Untarred(e, unzipped_path, e.dirs, e.files, 0, NoError)
        ELSE IF unzipped_path \in DOMAIN e.files
        THEN Untarred(e, unzipped_path, e.dirs, e.files, 0, "FileExistsError")
        ELSE Untarred(e, unzipped_path, e.dirs \cup Prefixes(unzipped_path),
                      x.files, x.extracted, x.error)

\* api.ensure_untar
ApiEnsureUntar(d, f, key, subkeys, url, name, directory, force, ok, whole) ==
    LET m == FromKey(d, key, <<>>, TRUE)
    IN  ModuleEnsureUntar(m.dirs, f, m.path, subkeys, url, name, directory,
                          force, ok, whole)

\* The archives of the model, by their URLs: a name with two suffixes, one
\* with none, and one with a version before its suffix.
UntarUrls == {<<"r", "a.tar.gz">>, <<"r", "a">>, <<"r", "a.1.tgz">>}
UntarKeys == {"k1"}
DirectoryNames == {"x"}

UntarCall(op, args, url, directory, force, r) ==
    [op |-> op, args |-> args, url |-> url, directory |-> directory,
     force |-> force, archive |-> r.archive, dir |-> r.dir, ret |-> r.ret,
     error |-> r.error, fetches |-> r.fetches, extracted |-> r.extracted,
     dirExisted |-> r.dirExisted, belowSame |-> r.belowSame]

\* pystow.ensure_untar(key, *subkeys, url=url, directory=directory,
\* force=force)
CallApiEnsureUntar ==
    /\ ncalls < MaxCalls
    /\ \E key \in UntarKeys, sk \in AdapterSubkeys, url \in UntarUrls,
          directory \in DirectoryNames \cup {None}, force \in BOOLEAN,
          ok \in BOOLEAN, whole \in BOOLEAN :
         LET r == ApiEnsureUntar(dirs, files, key, sk, url, None, directory,
                                 force, ok, whole)
         IN  /\ dirs' = r.dirs
             /\ files' = r.files
             /\ last' = UntarCall("api.ensure_untar",
                                  <<key, sk, url, directory, force>>,
                                  url, directory, force, r)
    /\ ncalls' = ncalls + 1
    /\ UNCHANGED <<patched, mod, env, procs>>

\* mod.ensure_untar(*subkeys, url=url, directory=directory, force=force)
CallEnsureUntar ==
    /\ ncalls < MaxCalls
    /\ mod # NoModule
    /\ \E sk \in AdapterSubkeys, url \in UntarUrls,
          directory \in DirectoryNames \cup {None}, force \in BOOLEAN,
          ok \in BOOLEAN, whole \in BOOLEAN :
         LET r == ModuleEnsureUntar(dirs, files, mod, sk, url, None,
                                    directory, force, ok, whole)
         IN  /\ dirs' = r.dirs
             /\ files' = r.files
             /\ last' = UntarCall("ensure_untar",
                                  <<mod, sk, url, directory, force>>,
                                  url, directory, force, r)
    /\ ncalls' = ncalls + 1
    /\ UNCHANGED <<patched, mod, env, procs>>

\* pystow.module(key): the caller keeps the Module
CallApiModule ==
    /\ ncalls < MaxCalls
    /\ \E key \in UntarKeys :
         LET r == FromKey(dirs, key, <<>>, TRUE)
         IN  /\ dirs' = r.dirs
             /\ mod' = r.path
             /\ last' = Resolved("api.module", <<key, <<>>, TRUE>>, TRUE,
                                 r.path, r)
    /\ ncalls' = ncalls + 1
    /\ UNCHANGED <<files, patched, env, procs>>

NextUntar ==
    \/ CallApiModule
    \/ CallEnsureUntar
    \/ CallApiEnsureUntar

\* Archives fetched and extracted.
SpecUntar == Init /\ [][NextUntar]_vars

UntarOps == {"ensure_untar", "api.ensure_untar"}

\* s ends with suffix
EndsWith(s, suffix) ==
    /\ Len(s) >= Len(suffix)
    /\ SubSeq(s, Len(s) - Len(suffix) + 1, Len(s)) = suffix

\* The suffixes of archives and of compression.
ArchiveSuffixes == {".tar", ".tgz", ".gz", ".bz2", ".xz"}

\* A file name with its compression and archive suffixes taken off its end.
RECURSIVE StripArchiveSuffixes(_)
StripArchiveSuffixes(name) ==
    IF \E suffix \in ArchiveSuffixes : EndsWith(name, suffix)
    THEN LET suffix == CHOOSE x \in ArchiveSuffixes : EndsWith(name, x)
         IN  StripArchiveSuffixes(SubSeq(name, 1, Len(name) - Len(suffix)))
    ELSE name

\* C15 as stated: for every archive file name, with no suffix or more,
\* ensure_untar without a directory argument extracts into a child of the
\* archive's parent, not the parent itself, named as the archive with its
\* compression and archive suffixes stripped; with a directory argument
\* that name is used.
C15_SiblingNamedByStem ==
    (last.op \in UntarOps /\ last.error = NoError)
        => /\ last.ret # Parent(last.archive)
           /\ last.ret = Append(Parent(last.archive),
                                IF last.directory = None
                                THEN StripArchiveSuffixes(PathName(last.archive))
                                ELSE last.directory)

C17_NoRollback ==
    (last.op \in UntarOps /\ last.error = "ReadError")
        => /\ last.ret = NoPath
           /\ last.archive \in DOMAIN files
           /\ last.fetches = 1 => files[last.archive].call = ncalls
           /\ last.dir \in dirs
           /\ last.extracted = 1
           /\ Append(last.dir, Members[1]) \in DOMAIN files
           /\ files[Append(last.dir, Members[1])]
                = MemberContent(last.url, Members[1], ncalls)

C17_Witness ==
    /\ last.op \in UntarOps /\ last.error = "ReadError"
    /\ last.fetches = 1 /\ ~last.dirExisted
    /\ last.archive \in DOMAIN files /\ last.dir \in dirs
    /\ Append(last.dir, Members[1]) \in DOMAIN files
    /\ Append(last.dir, Members[2]) \notin DOMAIN files

----------------------------------------------------------------------------
(* ensure_rdf and its cache of the parsed graph.                           *)

\* The place of the last "." of s at or before place i, 0 when there is none.
RECURSIVE LastDot(_, _)
LastDot(s, i) ==
    IF i < 1 THEN 0
    ELSE IF SubSeq(s, i, i) = "." THEN i
    ELSE LastDot(s, i - 1)

\* Path.suffix: the name from its last "." on, when that "." is neither the
\* first nor the last character, and else the empty string.
PathSuffix(name) ==
    LET dot == LastDot(name, Len(name))
    IN  IF 1 < dot /\ dot < Len(name) THEN SubSeq(name, dot, Len(name))
        ELSE ""

\* Path.with_suffix(suffix): the suffix of the name is replaced, and a name
\* without one has the suffix appended.
with_suffix(path, suffix) ==
    LET name == PathName(path)
        old == PathSuffix(name)
    IN  Append(Parent(path),
               IF old = "" THEN name \o suffix
               ELSE SubSeq(name, 1, Len(name) - Len(old)) \o suffix)

\* pystow.utils.read_rdf(path, **parse_kwargs): the graph that the content
\* of the file parses to with these options.
read_rdf(content, opts) == [type |-> "graph", of |-> content, opts |-> opts]

\* pickle.dump into gzip.open(path, "wb"), and pickle.load from
\* gzip.open(path, "rb")
gzip_pickle_dump(obj) == [enc |-> "pickle.gz", sep |-> "", data |-> obj]
gzip_pickle_load(f, path) ==
    IF path \notin DOMAIN f
    THEN [val |-> NoValue, error |-> "IsADirectoryError"]
    ELSE IF Bytes(f[path]).enc = "pickle.gz"
    THEN [val |-> Bytes(f[path]).data, error |-> NoError]
    ELSE [val |-> NoValue, error |-> "BadGzipFile"]

\* What ensure_rdf hands back: the graph it returns (NoValue when it
\* raised), the source and the cache path, the files it leaves, how often
\* it fetched and parsed, and whether the cache was there when it looked.
RdfRead(e, cache_path, f, val, parses, error) ==
    [val |-> IF error = NoError THEN val ELSE NoValue,
     source |-> e.target, cache |-> cache_path,
     dirs |-> e.dirs, files |-> f,
     fetches |-> e.fetches, parses |-> parses, error |-> error,
     cacheExisted |-> Exists(e.dirs, e.files, cache_path)]

\* the suffix of the source replaced, not extended
ModuleEnsureRdfReplacesSuffix(d, f, base, subkeys, url, name, force, ok, precache, opts) ==
    LET e == ModuleEnsure(d, f, base, subkeys, url, name, force, ok)
        cache_path == with_suffix(e.target, ".pickle.gz")
        rv == read_rdf(e.files[e.target], opts)
    IN  IF e.raised
        THEN RdfRead(e, cache_path, e.files, NoValue, 0, "TransferError")
        ELSE IF ~precache
        THEN RdfRead(e, cache_path, e.files, rv, 1, NoError)
        ELSE IF Exists(e.dirs, e.files, cache_path) /\ ~force
        THEN RdfRead(e, cache_path, e.files,
                     gzip_pickle_load(e.files, cache_path).val, 0,
                     gzip_pickle_load(e.files, cache_path).error)
        ELSE RdfRead(e, cache_path,
                     [p \in DOMAIN e.files \cup {cache_path} |->
                         IF p = cache_path
                         THEN Written(gzip_pickle_dump(rv), ncalls + 1)
                         ELSE e.files[p]],
                     rv, 1, NoError)

\* a cache older than its source taken for absent
ModuleEnsureRdfChecksSource(d, f, base, subkeys, url, name, force, ok, precache, opts) ==
    LET e == ModuleEnsure(d, f, base, subkeys, url, name, force, ok)
        cache_path == with_suffix(e.target, PathSuffix(PathName(e.target))
                                              \o ".pickle.gz")
        rv == read_rdf(e.files[e.target], opts)
    IN  IF e.raised
        THEN RdfRead(e, cache_path, e.files, NoValue, 0, "TransferError")
        ELSE IF ~precache
        THEN RdfRead(e, cache_path, e.files, rv, 1, NoError)
        ELSE IF /\ cache_path \in DOMAIN e.files
                /\ e.files[cache_path].call >= e.files[e.target].call
                /\ ~force
        THEN RdfRead(e, cache_path, e.files,
                     gzip_pickle_load(e.files, cache_path).val, 0,
                     gzip_pickle_load(e.files, cache_path).error)
        ELSE RdfRead(e, cache_path,
                     [p \in DOMAIN e.files \cup {cache_path} |->
                         IF p = cache_path
                         THEN Written(gzip_pickle_dump(rv), ncalls + 1)
                         ELSE e.files[p]],
                     rv, 1, NoError)

\* Module.ensure_rdf
ModuleEnsureRdf(d, f, base, subkeys, url, name, force, ok, precache, opts) ==
    LET e == ModuleEnsure(d, f, base, subkeys, url, name, force, ok)
        cache_path == with_suffix(e.target, PathSuffix(PathName(e.target))
                                              \o ".pickle.gz")
        rv == read_rdf(e.files[e.target], opts)
    IN  IF e.raised
        THEN RdfRead(e, cache_path, e.files, NoValue, 0, "TransferError")
        ELSE IF ~precache
        THEN RdfRead(e, cache_path, e.files, rv, 1, NoError)
        ELSE IF Exists(e.dirs, e.files, cache_path) /\ ~force
        THEN RdfRead(e, cache_path, e.files,
                     gzip_pickle_load(e.files, cache_path).val, 0,
                     gzip_pickle_load(e.files, cache_path).error)
        ELSE RdfRead(e, cache_path,
                     [p \in DOMAIN e.files \cup {cache_path} |->
                         IF p = cache_path
                         THEN Written(gzip_pickle_dump(rv), ncalls + 1)
                         ELSE e.files[p]],
                     rv, 1, NoError)

\* api.ensure_rdf
ApiEnsureRdf(d, f, key, subkeys, url, name, force, ok, precache, opts) ==
    LET m == FromKey(d, key, <<>>, TRUE)
    IN  ModuleEnsureRdf(m.dirs, f, m.path, subkeys, url, name, force, ok,
                        precache, opts)

\* The RDF sources of the model, by their URLs: a name with a suffix, one
\* with two and one with none; and the parse options of a call.
RdfUrls == {<<"r", "g.rdf">>, <<"r", "g.nt.gz">>, <<"r", "g">>}
RdfKeys == {"k1"}
ParseOptions == {"guess", "xml"}

RdfCall(op, args, force, precache, opts, r) ==
    [op |-> op, args |-> args, force |-> force, precache |-> precache,
     opts |-> opts, source |-> r.source, cache |-> r.cache, val |-> r.val,
     error |-> r.error, fetches |-> r.fetches, parses |-> r.parses,
     cacheExisted |-> r.cacheExisted,
     cacheBefore |-> IF r.cache \in DOMAIN files THEN files[r.cache]
                     ELSE NoContent]

\* pystow.ensure_rdf(key, url=url, force=force, precache=precache,
\* parse_kwargs=opts)
CallApiEnsureRdf ==
    /\ ncalls < MaxRdfCalls
    /\ \E key \in RdfKeys, url \in RdfUrls, force \in BOOLEAN,
          ok \in BOOLEAN, precache \in BOOLEAN, opts \in ParseOptions :
         LET r == ApiEnsureRdf(dirs, files, key, <<>>, url, None, force, ok,
                               precache, opts)
         IN  /\ dirs' = r.dirs
             /\ files' = r.files
             /\ last' = RdfCall("api.ensure_rdf",
                                <<key, url, force, precache, opts>>,
                                force, precache, opts, r)
    /\ ncalls' = ncalls + 1
    /\ UNCHANGED <<patched, mod, env, procs>>

NextRdf ==
    \/ CallApiEnsureRdf

\* RDF sources fetched, parsed and cached.
SpecRdf == Init /\ [][NextRdf]_vars

RdfOps == {"api.ensure_rdf"}

\* The call parsed its source and wrote the cache.
WroteCache(c) ==
    c.op \in RdfOps /\ c.precache /\ c.error = NoError /\ c.parses = 1

\* C18: the cache file that ensure_rdf writes lies in the directory of the
\* source file, and its name is the whole name of the source file, with or
\* without a suffix, followed by ".pickle.gz".
C18_CacheName ==
    WroteCache(last)
        => /\ Parent(last.cache) = Parent(last.source)
           /\ PathName(last.cache) = PathName(last.source) \o ".pickle.gz"
           /\ last.cache \in DOMAIN files
           /\ files[last.cache]
                = Written(gzip_pickle_dump(last.val), ncalls)

C18_Witness ==
    /\ WroteCache(last)
    /\ last.source = <<"home", "k1", "g.nt.gz">>
    /\ last.cache = <<"home", "k1", "g.nt.gz.pickle.gz">>
    /\ <<"home", "k1", "g.pickle.gz">> \in DOMAIN files
    /\ <<"home", "k1", "g.rdf.pickle.gz">> \in DOMAIN files

\* C19: with precache, ensure_rdf returns the graph pickled in the cache,
\* parsing nothing and writing nothing, whenever the cache file exists and
\* force is false, whatever the source file now holds and whatever the
\* parse options are; it parses the source and writes the cache anew only
\* when force is true or the cache file is absent.
C19_CacheOnlyByForce ==
    (last.op \in RdfOps /\ last.precache /\ last.error = NoError)
        => /\ (last.cacheExisted /\ ~last.force)
                => /\ last.parses = 0
                   /\ last.val = Bytes(last.cacheBefore).data
                   /\ files[last.cache] = last.cacheBefore
           /\ last.parses = 1 => (last.force \/ ~last.cacheExisted)
           /\ files[last.cache] # last.cacheBefore
                => (last.force \/ ~last.cacheExisted)
           /\ (last.force \/ ~last.cacheExisted)
                => /\ last.parses = 1
                   /\ last.val = read_rdf(files[last.source], last.opts)
                   /\ files[last.cache]
                        = Written(gzip_pickle_dump(last.val), ncalls)

\* The source was fetched again after the cache was written, and the call
\* asks for other parse options: the graph of the cache is returned.
C19_Witness ==
    /\ last.op \in RdfOps /\ last.precache /\ last.error = NoError
    /\ last.cacheExisted /\ ~last.force /\ last.parses = 0
    /\ files[last.source].call > files[last.cache].call
    /\ last.val.of # files[last.source]
    /\ last.val.opts # last.opts
    /\ last.val # read_rdf(files[last.source], last.opts)

----------------------------------------------------------------------------
(* Concurrent callers.  Two processes call pystow.ensure and a third reads *)
(* files.  A call is a sequence of steps that may interleave with the      *)
(* other process's: ensure resolves the target and enters download,        *)
(* download tests whether the target exists, opens it for writing, and     *)
(* closes it when the transfer is complete.  The file is written in place, *)
(* so that between the last two steps it holds a part of the content.      *)

\* What the file holds while a transfer writes it.
Partial(src, call) == [src |-> src, call |-> call, part |-> TRUE]
IsPartial(c) == c \notin [src : {c.src}, call : {c.call}]

\* The rank of the next completed write.
RECURSIVE MaxFinished(_)
MaxFinished(ps) ==
    IF ps = {} THEN 0
    ELSE LET p == CHOOSE q \in ps : TRUE
             rest == MaxFinished(ps \ {p})
         IN  IF procs[p].finished > rest THEN procs[p].finished ELSE rest

\* a lock taken by ensure around download: a call waits while the other
\* process is inside download
ConcEnsureLocked(p) ==
    /\ ncalls < MaxCalls
    /\ procs[p].pc \in {"idle", "done"}
    /\ \A q \in Callers \ {p} : procs[q].pc \in {"idle", "done"}
    /\ \E key \in Keys, subkeys \in AdapterSubkeys, url \in Urls :
          LET m == FromKey(dirs, key, <<>>, TRUE)
              j == ModuleJoin(m.dirs, m.path, subkeys, name_from_url(url),
                              TRUE)
          IN  /\ dirs' = j.dirs
              /\ procs' = [procs EXCEPT ![p] =
                            [Idle EXCEPT !.pc = "check",
                                         !.call = ncalls + 1,
                                         !.url = url,
                                         !.target = j.path]]
    /\ ncalls' = ncalls + 1
    /\ UNCHANGED <<files, patched, mod, last, env>>

\* api.ensure and Module.ensure up to the call of download: the module of
\* the key, the name from the URL, the target joined with its directories
\* created; nothing is tested and nothing is held before download is
\* entered.  force keeps its default, false.
ConcEnsure(p) ==
    /\ ncalls < MaxCalls
    /\ procs[p].pc \in {"idle", "done"}
    /\ \E key \in Keys, subkeys \in AdapterSubkeys, url \in Urls :
          LET m == FromKey(dirs, key, <<>>, TRUE)
              j == ModuleJoin(m.dirs, m.path, subkeys, name_from_url(url),
                              TRUE)
          IN  /\ dirs' = j.dirs
              /\ procs' = [procs EXCEPT ![p] =
                            [Idle EXCEPT !.pc = "check",
                                         !.call = ncalls + 1,
                                         !.url = url,
                                         !.target = j.path]]
    /\ ncalls' = ncalls + 1
    /\ UNCHANGED <<files, patched, mod, last, env>>

\* download's test: when the target exists the call returns its path, and
\* the caller is handed the file as it is then; else the transfer starts.
DownloadCheck(p) ==
    /\ procs[p].pc = "check"
    /\ procs' = [procs EXCEPT ![p] =
                  IF Exists(dirs, files, procs[p].target)
                  THEN [@ EXCEPT !.pc = "done",
                                 !.saw = files[procs[p].target]]
                  ELSE [@ EXCEPT !.pc = "fetch", !.fetched = TRUE]]
    /\ UNCHANGED <<dirs, files, patched, mod, last, ncalls, env>>

\* The transfer opens the target itself for writing: what it held is gone.
DownloadBegin(p) ==
    /\ procs[p].pc = "fetch"
    /\ files' = [q \in DOMAIN files \cup {procs[p].target} |->
                    IF q = procs[p].target
                    THEN Partial(<<procs[p].url>>, procs[p].call)
                    ELSE files[q]]
    /\ procs' = [procs EXCEPT ![p].pc = "writing"]
    /\ UNCHANGED <<dirs, patched, mod, last, ncalls, env>>

\* The transfer completes: the target holds the whole content this call
\* fetched, whatever another transfer wrote to it meanwhile.
DownloadFinish(p) ==
    /\ procs[p].pc = "writing"
    /\ files' = [files EXCEPT ![procs[p].target] =
                    Content(<<procs[p].url>>, procs[p].call)]
    /\ procs' = [procs EXCEPT ![p] =
                  [@ EXCEPT !.pc = "done",
                            !.finished = MaxFinished(Callers) + 1,
                            !.saw = Content(<<procs[p].url>>, procs[p].call)]]
    /\ UNCHANGED <<dirs, patched, mod, last, ncalls, env>>

\* A process that opens a file of the store and reads it to the end.
ReaderRead ==
    /\ \E path \in DOMAIN files :
          procs' = [procs EXCEPT ![Reader] =
                      [@ EXCEPT !.pc = "done", !.target = path,
                                !.saw = files[path]]]
    /\ UNCHANGED <<dirs, files, patched, mod, last, ncalls, env>>

CallConcEnsure == \E p \in Callers : ConcEnsure(p)
StepDownloadCheck == \E p \in Callers : DownloadCheck(p)
StepDownloadBegin == \E p \in Callers : DownloadBegin(p)
StepDownloadFinish == \E p \in Callers : DownloadFinish(p)

NextConcurrent ==
    \/ CallConcEnsure
    \/ StepDownloadCheck
    \/ StepDownloadBegin
    \/ StepDownloadFinish
    \/ ReaderRead

SpecConcurrent == Init /\ [][NextConcurrent]_vars

\* Both callers fetched for one target and both transfers are complete.
BothWrote ==
    /\ \A p \in Callers : procs[p].pc = "done" /\ procs[p].fetched
    /\ procs["p1"].target = procs["p2"].target

LastWriter == CHOOSE p \in Callers : procs[p].finished = MaxFinished(Callers)

\* C20: concurrent ensure calls are not coordinated.  A call never waits
\* for the other process: whenever a process may call, it can enter
\* download, and every step of download can be taken wherever the other
\* process is.  Hence both may fetch for one target; when both did and both
\* transfers are complete, the file holds what the transfer that completed
\* last wrote.
C20_Uncoordinated ==
    /\ \A p \in Callers :
          /\ (procs[p].pc \in {"idle", "done"} /\ ncalls < MaxCalls)
                => ENABLED ConcEnsure(p)
          /\ procs[p].pc = "check" => ENABLED DownloadCheck(p)
          /\ procs[p].pc = "fetch" => ENABLED DownloadBegin(p)
          /\ procs[p].pc = "writing" => ENABLED DownloadFinish(p)
    /\ BothWrote
          => /\ procs["p1"].finished # procs["p2"].finished
             /\ files[procs["p1"].target]
                  = Content(<<procs[LastWriter].url>>, procs[LastWriter].call)

\* Both callers found the target missing, both fetched and both wrote it;
\* the call that started first completed last and the file holds its
\* content; and the reader read the file while a transfer had it open and
\* saw a part of its content.
C20_Witness ==
    /\ BothWrote
    /\ procs[LastWriter].call = 1
    /\ files[procs["p1"].target] = Content(<<procs[LastWriter].url>>, 1)
    /\ procs[Reader].target = procs["p1"].target
    /\ IsPartial(procs[Reader].saw)

----------------------------------------------------------------------------
(* Opening what was ensured.  ensure_open and its gzip, LZMA, tar and zip *)
(* variants are context managers: the call ensures the file, opens it,    *)
(* opens the member where the format has members, and hands the innermost *)
(* handle to the caller's block; each handle was opened by a with         *)
(* statement, which closes it when the block ends or raises.  A handle is *)
(* the open call that made it, what it opened and the keyword arguments   *)
(* that call received; a dict is a function from its keys.                *)

MaxOpenCalls == 2

NoKwargs == [k \in {} |-> None]
\* An argument for keyword arguments that is None (left out).
NoneKwargs == [k \in {"None"} |-> None]
setdefault(kwargs, k, v) ==
    IF k \in DOMAIN kwargs THEN kwargs ELSE [j \in DOMAIN kwargs \cup {k} |-> IF j = k THEN v ELSE kwargs[j]]

\* open_kwargs = {} if open_kwargs is None else dict(open_kwargs);
\* open_kwargs.setdefault("mode", mode)
OpenKwargs(open_kwargs, mode) ==
    setdefault(IF open_kwargs = NoneKwargs THEN NoKwargs ELSE open_kwargs, "mode", mode)

Formats == {"plain", "gz", "lzma", "tar", "zip"}
ArchiveFormats == {"tar", "zip"}

\* The default of the mode parameter in the signature of each Module method.
ModuleDefaultMode(fmt) ==
    CASE fmt = "plain" -> "r"
      [] fmt = "gz" -> "rb"
      [] fmt = "lzma" -> "rt"
      [] fmt = "tar" -> "r"
      [] fmt = "zip" -> "r"

\* The default of the mode parameter in the signature of each top-level
\* function.
ApiDefaultMode(fmt) ==
    CASE fmt = "plain" -> "r"
      [] fmt = "gz" -> "rb"
      [] fmt = "lzma" -> "r"
      [] fmt = "tar" -> "r"
      [] fmt = "zip" -> "r"

\* The open call each variant makes on the ensured path.
OuterOpener(fmt) ==
    CASE fmt = "plain" -> "Path.open"
      [] fmt = "gz" -> "gzip.open"
      [] fmt = "lzma" -> "lzma.open"
      [] fmt = "tar" -> "tarfile.open"
      [] fmt = "zip" -> "zipfile.ZipFile"

\* The call that opens a member of an archive.
InnerOpener(fmt) == IF fmt = "tar" THEN "TarFile.extractfile" ELSE "ZipFile.open"

\* What reading from the handle gives: gzip.open and lzma.open read bytes
\* unless the mode has a t, Path.open reads text unless the mode has a b,
\* and the members of an archive are read as bytes.
Reads(opener, kwargs) ==
    LET mode == IF "mode" \in DOMAIN kwargs THEN kwargs["mode"] ELSE "r"
    IN  CASE opener \in {"gzip.open", "lzma.open"} -> IF mode = "rt" THEN "str" ELSE "bytes"
          [] opener = "Path.open" -> IF mode = "rb" THEN "bytes" ELSE "str"
          [] OTHER -> "bytes"

Handle(opener, path, member, kwargs) ==
    [opener |-> opener, path |-> path, member |-> member, kwargs |-> kwargs, reads |-> Reads(opener, kwargs)]

\* only the handle that was yielded is closed
WithExitInnerOnly(handles, events) ==
    IF handles = <<>> THEN events
    ELSE Append(events, <<"close", handles[Len(handles)]>>)

\* The with statements of a generator leave innermost first: every handle
\* of the stack is closed, the last one opened first.
RECURSIVE WithExit(_, _)
WithExit(handles, events) ==
    IF handles = <<>> THEN events
    ELSE WithExit(SubSeq(handles, 1, Len(handles) - 1), Append(events, <<"close", handles[Len(handles)]>>))

\* What entering the context manager leaves: the file system, the handles
\* that are open, the events in their order, the handle yielded to the
\* block (when one is) and the error raised instead.
Entered(e, handles, events, error) ==
    [dirs |-> e.dirs, files |-> e.files, target |-> e.target, fetches |-> e.fetches,
     handles |-> IF error = NoError THEN handles ELSE <<>>,
     events |-> IF error = NoError
                THEN Append(events, <<"yield", handles[Len(handles)]>>)
                ELSE WithExit(handles, events),
     error |-> error]

\* Module.ensure_open, ensure_open_gz, ensure_open_lzma, ensure_open_tarfile
\* and ensure_open_zip up to the yield (a mode of None is a mode left out): the file is ensured, then opened
\* with the keyword arguments and the mode as their default (zipfile.ZipFile
\* is given the path alone); tar_file.extractfile and zip_file.open are
\* given the member's name alone, and raise when the archive has no such
\* member, which closes the archive.
ModuleEnsureOpenAs(d, f, base, subkeys, fmt, url, inner_path, force, ok, mode, open_kwargs) ==
    LET e == ModuleEnsure(d, f, base, subkeys, url, None, force, ok)
        kw == OpenKwargs(open_kwargs, IF mode = None THEN ModuleDefaultMode(fmt) ELSE mode)
        outer == Handle(OuterOpener(fmt), e.target, None, IF fmt = "zip" THEN NoKwargs ELSE kw)
        inner == Handle(InnerOpener(fmt), e.target, inner_path, NoKwargs)
        ensured == << <<"ensure", e.target>> >>
        opened == Append(ensured, <<"open", outer>>)
    IN  IF e.raised THEN Entered(e, <<>>, <<>>, "DownloadError")
        ELSE IF fmt \notin ArchiveFormats THEN Entered(e, <<outer>>, opened, NoError)
        ELSE IF \A i \in DOMAIN Members : Members[i] # inner_path
        THEN Entered(e, <<outer>>, opened, "KeyError")
        ELSE Entered(e, <<outer, inner>>, Append(opened, <<"open", inner>>), NoError)

\* api.ensure_open and its variants: the module of the key, then the
\* Module method inside a with statement of its own, with every argument
\* handed on; a mode left out is the default of the top-level signature.
ApiEnsureOpenAs(d, f, key, subkeys, fmt, url, inner_path, force, ok, mode, open_kwargs) ==
    LET m == FromKey(d, key, <<>>, TRUE)
    IN  ModuleEnsureOpenAs(m.dirs, f, m.path, subkeys, fmt, url, inner_path, force, ok, IF mode = None THEN ApiDefaultMode(fmt) ELSE mode, open_kwargs)

\* Module.from_key(key).ensure_open...(...)
ViaModuleEnsureOpenAs(d, f, key, subkeys, fmt, url, inner_path, force, ok, mode, open_kwargs) ==
    LET m == FromKey(d, key, <<>>, TRUE)
    IN  ModuleEnsureOpenAs(m.dirs, f, m.path, subkeys, fmt, url, inner_path, force, ok, mode, open_kwargs)

OpenUrl(fmt) ==
    CASE fmt = "plain" -> "t.txt"
      [] fmt = "gz" -> "t.gz"
      [] fmt = "lzma" -> "t.xz"
      [] fmt = "tar" -> "t.tar"
      [] fmt = "zip" -> "t.zip"
OpenKeys == {"k1"}
OpenModes == {None, "rb"}
OpenKwargsGiven == {NoneKwargs, [encoding |-> "utf8"]}
InnerPaths == {"m1", "zz"}
BlockEndings == {"normal", "exception"}
OpenOps == {"api.ensure_open", "Module.ensure_open"}

\* The handles of the events that were opened and not closed since.
StillOpen(events) ==
    {h \in {events[i][2] : i \in {j \in DOMAIN events : events[j][1] = "open"}} :
        \A i \in DOMAIN events : events[i] # <<"close", h>>}

InBlock == last.op \in OpenOps /\ last.phase = "block"

\* What a call of one of the variants leaves in last; r is what the call
\* did, m what the same call made on Module.from_key(key) does.
OpenCall(op, fmt, key, inner_path, mode, open_kwargs, r, m) ==
    [op |-> op, fmt |-> fmt, key |-> key, inner_path |-> inner_path, mode |-> mode,
     open_kwargs |-> open_kwargs, target |-> r.target, fetches |-> r.fetches,
     phase |-> IF r.error = NoError THEN "block" ELSE "raised",
     ending |-> None, handles |-> r.handles, events |-> r.events, error |-> r.error,
     targetAtYield |-> r.target \in DOMAIN r.files,
     viaModule |-> [dirs |-> m.dirs, files |-> m.files, handles |-> m.handles, events |-> m.events, error |-> m.error]]

\* with pystow.ensure_open...(key, url=..., ...) as file:
CallApiEnsureOpenAs ==
    /\ ncalls < MaxOpenCalls
    /\ ~InBlock
    /\ \E fmt \in Formats, key \in OpenKeys, inner_path \in InnerPaths, ok \in BOOLEAN, mode \in OpenModes, open_kwargs \in OpenKwargsGiven :
          LET r == ApiEnsureOpenAs(dirs, files, key, <<>>, fmt, <<"r", OpenUrl(fmt)>>, inner_path, FALSE, ok, mode, open_kwargs)
              m == ViaModuleEnsureOpenAs(dirs, files, key, <<>>, fmt, <<"r", OpenUrl(fmt)>>, inner_path, FALSE, ok, mode, open_kwargs)
          IN  /\ fmt \notin ArchiveFormats => inner_path = "m1"
              /\ dirs' = r.dirs
              /\ files' = r.files
              /\ last' = OpenCall("api.ensure_open", fmt, key, inner_path, mode, open_kwargs, r, m)
    /\ ncalls' = ncalls + 1
    /\ UNCHANGED <<patched, mod, env, procs>>

\* with Module.from_key(key).ensure_open...(url=..., ...) as file:
CallModuleEnsureOpenAs ==
    /\ ncalls < MaxOpenCalls
    /\ ~InBlock
    /\ \E fmt \in Formats, key \in OpenKeys, inner_path \in InnerPaths, ok \in BOOLEAN, mode \in OpenModes, open_kwargs \in OpenKwargsGiven :
          LET r == ViaModuleEnsureOpenAs(dirs, files, key, <<>>, fmt, <<"r", OpenUrl(fmt)>>, inner_path, FALSE, ok, mode, open_kwargs)
          IN  /\ fmt \notin ArchiveFormats => inner_path = "m1"
              /\ dirs' = r.dirs
              /\ files' = r.files
              /\ last' = OpenCall("Module.ensure_open", fmt, key, inner_path, mode, open_kwargs, r, r)
    /\ ncalls' = ncalls + 1
    /\ UNCHANGED <<patched, mod, env, procs>>

\* The caller's block ends, normally or by an exception thrown into the
\* generator at its yield: the with statements close what they opened.
BlockEnds ==
    /\ InBlock
    /\ \E ending \in BlockEndings :
          last' = [last EXCEPT !.phase = "exited", !.ending = ending,
                               !.events = WithExit(last.handles, last.events),
                               !.handles = <<>>]
    /\ UNCHANGED <<dirs, files, patched, mod, ncalls, env, procs>>

NextOpen ==
    \/ CallApiEnsureOpenAs
    \/ CallModuleEnsureOpenAs
    \/ BlockEnds

SpecOpen == Init /\ [][NextOpen]_vars

\* The place of an event in the events of the last call (0: not there).
EventAt(ev) ==
    IF \E i \in DOMAIN last.events : last.events[i] = ev
    THEN CHOOSE i \in DOMAIN last.events : last.events[i] = ev
    ELSE 0

\* C21: a handle is yielded only after the file was ensured (the ensure is
\* the first event and the file is there at the yield), what is yielded is
\* the innermost handle, and once the block has ended, normally or by an
\* exception, or the call raised instead of yielding, every handle that was
\* opened is closed, the member before its archive.
C21_HandlesScoped ==
    last.op \in OpenOps
        => /\ last.phase \in {"block", "exited"}
                => /\ last.events[1] = <<"ensure", last.target>>
                   /\ last.targetAtYield
                   /\ \E i \in DOMAIN last.events :
                         /\ last.events[i][1] = "yield"
                         /\ last.events[i - 1] = <<"open", last.events[i][2]>>
                         /\ last.events[i][2].member = (IF last.fmt \in ArchiveFormats THEN last.inner_path ELSE None)
           /\ last.phase = "block" => Len(last.handles) = (IF last.fmt \in ArchiveFormats THEN 2 ELSE 1)
           /\ last.phase \in {"exited", "raised"}
                => /\ StillOpen(last.events) = {}
                   /\ \A h1, h2 \in {last.events[i][2] : i \in DOMAIN last.events \ {1}} :
                         (EventAt(<<"open", h1>>) < EventAt(<<"open", h2>>))
                            => (EventAt(<<"close", h2>>) < EventAt(<<"close", h1>>))

\* A tar member was yielded and the block ended by an exception: the
\* member was closed, then the archive.
C21_Witness ==
    /\ last.op \in OpenOps
    /\ last.fmt = "tar"
    /\ last.phase = "exited"
    /\ last.ending = "exception"
    /\ Len(last.events) = 6
    /\ last.events[5][1] = "close" /\ last.events[5][2].opener = "TarFile.extractfile"
    /\ last.events[6][1] = "close" /\ last.events[6][2].opener = "tarfile.open"

\* The mode a call opens with: the one given, or the default of the
\* signature that was called.
EffectiveMode ==
    IF last.mode # None THEN last.mode
    ELSE IF last.op = "api.ensure_open" THEN ApiDefaultMode(last.fmt)
    ELSE ModuleDefaultMode(last.fmt)

\* The open call that the caller's mode and keyword arguments are meant
\* for: the one that opens the member for zip, the one that opens the
\* ensured path for the others.
UnderlyingOpen ==
    IF last.fmt = "zip"
    THEN CHOOSE h \in {last.events[i][2] : i \in DOMAIN last.events \ {1}} : h.opener = "ZipFile.open"
    ELSE last.events[2][2]

\* C23: whenever one of the variants yields a handle, the underlying open
\* call (for ensure_open_zip, the call that opens the member) received the
\* caller's keyword arguments with the caller's mode as the default of
\* their mode.
C23_ZipOptionsPassed ==
    (last.op \in OpenOps /\ last.phase \in {"block", "exited"})
        => UnderlyingOpen.kwargs = OpenKwargs(last.open_kwargs, EffectiveMode)

\* C29: a top-level ensure_open... call leaves what the same call on
\* Module.from_key(key) leaves, also with the mode left out: the same file
\* system, the same handles with the same reads, the same events and the
\* same error.
C29_ApiAsModule ==
    last.op = "api.ensure_open"
        => /\ last.viaModule.dirs = dirs
           /\ last.viaModule.files = files
           /\ last.viaModule.error = last.error
           /\ last.phase = "block" => last.viaModule.handles = last.handles
           /\ last.phase # "exited" => last.viaModule.events = last.events

----------------------------------------------------------------------------
(* Options handed on.  What the fetching function of pystow.utils is     *)
(* called with is kept beside the outcome of the call, so that an option *)
(* given to a top-level function can be followed down to it.             *)

\* The keyword arguments Module.ensure_from_s3 has beside name and force.
S3Options == [client : {None, "client"}, client_kwargs : {None, "ck"}, download_file_kwargs : {None, "dk"}]
NoS3Options == [client |-> None, client_kwargs |-> None, download_file_kwargs |-> None]
DownloadKwargsGiven == {NoneKwargs, [backend |-> "requests"]}

\* Module.ensure, with the keyword arguments download receives:
\* **(download_kwargs or {}) beside url, path and force.
ModuleEnsureWith(d, f, base, subkeys, url, name, force, ok, download_kwargs) ==
    [out |-> ModuleEnsure(d, f, base, subkeys, url, name, force, ok),
     received |-> [force |-> force, kwargs |-> IF download_kwargs = NoneKwargs THEN NoKwargs ELSE download_kwargs]]

\* api.ensure
ApiEnsureWith(d, f, key, subkeys, url, name, force, ok, download_kwargs) ==
    LET m == FromKey(d, key, <<>>, TRUE)
    IN  ModuleEnsureWith(m.dirs, f, m.path, subkeys, url, name, force, ok, download_kwargs)

\* Module.ensure_from_s3, with what download_from_s3 receives beside the
\* bucket, the key and the path.
ModuleEnsureFromS3With(d, f, base, subkeys, s3_key, name, force, ok, client, client_kwargs, download_file_kwargs) ==
    [out |-> ModuleEnsureFromS3(d, f, base, subkeys, s3_key, name, force, ok),
     received |-> [force |-> force,
                   kwargs |-> [client |-> client, client_kwargs |-> client_kwargs, download_file_kwargs |-> download_file_kwargs]]]

\* api.ensure_from_s3: the remaining keyword arguments are collected in
\* kwargs, and the Module method is called with the bucket, the key, name
\* and force.
ApiEnsureFromS3With(d, f, key, subkeys, s3_key, name, force, ok, kwargs) ==
    LET m == FromKey(d, key, <<>>, TRUE)
    IN  ModuleEnsureFromS3With(m.dirs, f, m.path, subkeys, s3_key, name, force, ok, None, None, None)

\* What a call leaves in last: the options the caller gave and those the
\* fetching function received.
Forwarded(op, args, force, given, r) ==
    [op |-> op, args |-> args, force |-> force, given |-> given, received |-> r.received,
     ret |-> r.out.path, raised |-> r.out.raised, fetches |-> r.out.fetches]

CallApiEnsureWith ==
    /\ ncalls < MaxCalls
    /\ \E key \in Keys, url \in Urls, force \in BOOLEAN, ok \in BOOLEAN, download_kwargs \in DownloadKwargsGiven :
          LET r == ApiEnsureWith(dirs, files, key, <<>>, url, None, force, ok, download_kwargs)
          IN  /\ dirs' = r.out.dirs
              /\ files' = r.out.files
              /\ last' = Forwarded("api.ensure", <<key, url>>, force, IF download_kwargs = NoneKwargs THEN NoKwargs ELSE download_kwargs, r)
    /\ ncalls' = ncalls + 1
    /\ UNCHANGED <<patched, mod, env, procs>>

CallEnsureFromS3With ==
    /\ ncalls < MaxCalls
    /\ \E key \in Keys, s3_key \in S3Keys, force \in BOOLEAN, ok \in BOOLEAN, kwargs \in S3Options :
          LET m == FromKey(dirs, key, <<>>, TRUE)
              r == ModuleEnsureFromS3With(m.dirs, files, m.path, <<>>, s3_key, None, force, ok, kwargs.client, kwargs.client_kwargs, kwargs.download_file_kwargs)
          IN  /\ dirs' = r.out.dirs
              /\ files' = r.out.files
              /\ last' = Forwarded("ensure_from_s3", <<key, s3_key>>, force, kwargs, r)
    /\ ncalls' = ncalls + 1
    /\ UNCHANGED <<patched, mod, env, procs>>

CallApiEnsureFromS3With ==
    /\ ncalls < MaxCalls
    /\ \E key \in Keys, s3_key \in S3Keys, force \in BOOLEAN, ok \in BOOLEAN, kwargs \in S3Options :
          LET r == ApiEnsureFromS3With(dirs, files, key, <<>>, s3_key, None, force, ok, kwargs)
          IN  /\ dirs' = r.out.dirs
              /\ files' = r.out.files
              /\ last' = Forwarded("api.ensure_from_s3", <<key, s3_key>>, force, kwargs, r)
    /\ ncalls' = ncalls + 1
    /\ UNCHANGED <<patched, mod, env, procs>>

NextOptions ==
    \/ CallApiEnsureWith
    \/ CallEnsureFromS3With
    \/ CallApiEnsureFromS3With

SpecOptions == Init /\ [][NextOptions]_vars

OptionOps == {"api.ensure", "ensure_from_s3", "api.ensure_from_s3"}

\* C22: the options a call was given are the options the fetching function
\* received, force included; in particular the client, client_kwargs and
\* download_file_kwargs given to the top-level ensure_from_s3.
C22_OptionsForwarded ==
    last.op \in OptionOps
        => /\ last.received.force = last.force
           /\ last.received.kwargs = last.given

----------------------------------------------------------------------------
(* Modules of the same directory.  A Module holds its base path and       *)
(* nothing else; the Module of a key and two subkeys can be made in three *)
(* ways, and an operation is then called on it.                           *)

\* Module.from_key(key, a, b), Module.from_key(key).module(a).module(b)
\* and Module.from_key(key).module(a, b), each call with ensure_exists.
Composed(route, d, key, a, b, ensure_exists) ==
    LET root == FromKey(d, key, <<>>, ensure_exists)
        child == ModuleModule(root.dirs, root.path, <<a>>, ensure_exists)
    IN  CASE route = "from_key(key, a, b)" -> FromKey(d, key, <<a, b>>, ensure_exists)
          [] route = "from_key(key).module(a).module(b)" -> ModuleModule(child.dirs, child.path, <<b>>, ensure_exists)
          [] route = "from_key(key).module(a, b)" -> ModuleModule(root.dirs, root.path, <<a, b>>, ensure_exists)

Routes == {"from_key(key, a, b)", "from_key(key).module(a).module(b)", "from_key(key).module(a, b)"}
ComposeSubkeys == {"a", "b"}
ComposeKeys == {"k1"}

\* The operations called on the Module: join and ensure.
ModuleOperations ==
    [kind : {"join"}, subkeys : {<<"c">>}, name : {"f"}, flag : BOOLEAN, url : {<<>>}]
        \cup [kind : {"ensure"}, subkeys : {<<"c">>}, name : {None}, flag : BOOLEAN, url : Urls]

\* An operation on the Module of base: what it returns and what it leaves
\* (flag is ensure_exists for join and force for ensure).
Operate(d, f, base, o) ==
    IF o.kind = "join"
    THEN LET j == ModuleJoin(d, base, o.subkeys, o.name, o.flag)
         IN  [ret |-> j.path, dirs |-> j.dirs, files |-> f, raised |-> FALSE]
    ELSE LET e == ModuleEnsure(d, f, base, o.subkeys, o.url, o.name, o.flag, TRUE)
         IN  [ret |-> e.path, dirs |-> e.dirs, files |-> e.files, raised |-> e.raised]

\* The Module made by a route and the operation called on it.
ComposedThen(route, d, f, key, a, b, ensure_exists, o) ==
    LET m == Composed(route, d, key, a, b, ensure_exists)
    IN  [base |-> m.path, made |-> m.dirs, result |-> Operate(m.dirs, f, m.path, o)]

\* A Module is made by one of the routes and an operation is called on it;
\* what each route would have given from the same file system is kept.
CallComposed ==
    /\ ncalls < MaxCalls
    /\ \E route \in Routes, key \in ComposeKeys, a \in ComposeSubkeys, b \in ComposeSubkeys, ee \in BOOLEAN, o \in ModuleOperations :
          LET r == ComposedThen(route, dirs, files, key, a, b, ee, o)
          IN  /\ dirs' = r.result.dirs
              /\ files' = r.result.files
              /\ mod' = r.base
              /\ last' = [op |-> "composed", route |-> route, key |-> key, a |-> a, b |-> b,
                          ensure_exists |-> ee, operation |-> o, did |-> r,
                          routes |-> [x \in Routes |-> ComposedThen(x, dirs, files, key, a, b, ee, o)]]
    /\ ncalls' = ncalls + 1
    /\ UNCHANGED <<patched, env, procs>>

NextCompose == \/ CallComposed

SpecCompose == Init /\ [][NextCompose]_vars

\* C24: the Modules made by the three routes have the same base path, the
\* path join gives for the key's base and the two subkeys, and leave the
\* same directories; an operation called on any of them returns the same
\* and leaves the same file system.
C24_SubkeysCompose ==
    last.op = "composed"
        => /\ \A x, y \in Routes : last.routes[x] = last.routes[y]
           /\ last.did.base = ModuleJoin(dirs, get_base(last.key), <<last.a, last.b>>, None, FALSE).path
           /\ last.did.result.dirs = dirs
           /\ last.did.result.files = files

\* The Module was made by the chain of two module() calls with
\* directories created, and ensure fetched a file below it.
C24_Witness ==
    /\ last.op = "composed"
    /\ last.route = "from_key(key).module(a).module(b)"
    /\ last.ensure_exists
    /\ last.did.base = <<"home", "k1", "a", "b">>
    /\ last.operation.kind = "ensure"
    /\ last.did.result.ret = <<"home", "k1", "a", "b", "c", "f">>
    /\ last.did.result.ret \in DOMAIN files
    /\ \A x \in Routes : last.routes[x].result.ret = last.did.result.ret

\* C25: a call with precache and without force that returns, returns a
\* graph of the source file now on disk.
C25_ServesCurrentSource ==
    (last.op \in RdfOps /\ last.precache /\ ~last.force /\ last.error = NoError)
        => last.val.of = files[last.source]

\* The directory holds every member of the archive now at the archive
\* path, and no member of another archive.
Complete(directory, archive) ==
    /\ archive \in DOMAIN files
    /\ \A i \in 1..Len(Members) :
          /\ Append(directory, Members[i]) \in DOMAIN files
          /\ files[Append(directory, Members[i])].src = <<files[archive].src[1], <<Members[i]>>>>
    /\ \A p \in DOMAIN files :
          (Parent(p) = directory /\ Len(files[p].src) = 2)
             => files[p].src[1] = files[archive].src[1]

----------------------------------------------------------------------------
(* Reading and writing the store.  Every load and dump of the five        *)
(* formats, and open, called on a Module the caller keeps and through the *)
(* top-level functions.                                                   *)

TestTree == [type |-> "tree", data |-> <<"root">>]
TestGraph == [type |-> "graph", of |-> NoContent, opts |-> "turtle"]

\* lxml's ElementTree.write and etree.parse
etree_write(obj) == [enc |-> "xml", sep |-> "", data |-> obj]
etree_parse(bytes) ==
    IF bytes.enc = "xml"
    THEN [val |-> bytes.data, error |-> NoError]
    ELSE [val |-> NoValue, error |-> "XMLSyntaxError"]

\* rdflib's Graph.serialize(path, format=format)
serialize(obj, format) == [enc |-> "rdf", sep |-> format, data |-> obj]

\* Module.load_xml
ModuleLoadXml(d, f, base, subkeys, name) ==
    LET h == ModuleOpen(d, f, base, subkeys, name, "r", FALSE)
    IN  IF h.error # NoError THEN h
        ELSE Parsed(h, etree_parse(Bytes(h.files[h.path])))

\* Module.dump_xml
ModuleDumpXml(d, f, base, subkeys, name, obj) ==
    WriteTo(ModuleOpen(d, f, base, subkeys, name, "wb", TRUE), etree_write(obj))

\* Module.load_rdf: read_rdf opens the path itself
ModuleLoadRdf(d, f, base, subkeys, name) ==
    LET j == ModuleJoin(d, base, subkeys, name, FALSE)
        o == PathOpen(j.dirs, f, j.path, "rb")
    IN  IF o.error # NoError THEN Result(j.dirs, f, j.path, NoValue, o.error)
        ELSE Result(j.dirs, f, j.path, read_rdf(f[j.path], "guess"), NoError)

\* Module.dump_rdf: serialize opens the path itself
ModuleDumpRdf(d, f, base, subkeys, name, obj) ==
    LET j == ModuleJoin(d, base, subkeys, name, FALSE)
        o == PathOpen(j.dirs, f, j.path, "wb")
    IN  WriteTo(Result(j.dirs, o.files, j.path, NoValue, o.error), serialize(obj, "turtle"))

ReadOnlyOps == {"open", "load_df", "load_json", "load_pickle", "load_xml", "load_rdf"}
StoreDumpOps == {"dump_df", "dump_json", "dump_pickle", "dump_xml", "dump_rdf"}

\* The read-only operations of a Module, by name.
ModuleRead(op, d, f, base, subkeys, name) ==
    CASE op = "open" -> ModuleOpen(d, f, base, subkeys, name, "r", FALSE)
      [] op = "load_df" -> ModuleLoadDf(d, f, base, subkeys, name)
      [] op = "load_json" -> ModuleLoadJson(d, f, base, subkeys, name)
      [] op = "load_pickle" -> ModuleLoadPickle(d, f, base, subkeys, name)
      [] op = "load_xml" -> ModuleLoadXml(d, f, base, subkeys, name)
      [] op = "load_rdf" -> ModuleLoadRdf(d, f, base, subkeys, name)

\* The dump operations of a Module, by name, each with an object of its
\* format.
ModuleDump(op, d, f, base, subkeys, name) ==
    CASE op = "dump_df" -> ModuleDumpDf(d, f, base, subkeys, name, TestTable)
      [] op = "dump_json" -> ModuleDumpJson(d, f, base, subkeys, name, TestDict)
      [] op = "dump_pickle" -> ModuleDumpPickle(d, f, base, subkeys, name, TestRows)
      [] op = "dump_xml" -> ModuleDumpXml(d, f, base, subkeys, name, TestTree)
      [] op = "dump_rdf" -> ModuleDumpRdf(d, f, base, subkeys, name, TestGraph)

\* The top-level functions: the Module of the key, made with its
\* directory, then the Module's method.
ApiRead(op, d, f, key, subkeys, name) ==
    LET m == FromKey(d, key, <<>>, TRUE)
    IN  ModuleRead(op, m.dirs, f, m.path, subkeys, name)

ApiDump(op, d, f, key, subkeys, name) ==
    LET m == FromKey(d, key, <<>>, TRUE)
    IN  ModuleDump(op, m.dirs, f, m.path, subkeys, name)

StoreKeys == {"k1"}
StoreNames == {"f.dat"}

\* What a call leaves in last: whether it was made on a Module or
\* top-level, what it returned or raised, and whether the directories and
\* the files are those it found.
Stored(level, op, args, r) ==
    [level |-> level, op |-> op, args |-> args, path |-> r.path,
     val |-> r.val, error |-> r.error,
     existed |-> r.path \in DOMAIN files,
     dirsSame |-> r.dirs = dirs,
     filesSame |-> DOMAIN r.files = DOMAIN files
                     /\ \A p \in DOMAIN files : r.files[p].call = files[p].call]

\* mod.open(...) in its read mode, mod.load_df(...), ...
CallModuleRead ==
    /\ ncalls < MaxCalls
    /\ mod # NoModule
    /\ \E op \in ReadOnlyOps, sk \in AdapterSubkeys, name \in StoreNames :
          LET r == ModuleRead(op, dirs, files, mod, sk, name)
          IN  /\ dirs' = r.dirs
              /\ files' = r.files
              /\ last' = Stored("Module", op, <<mod, sk, name>>, r)
    /\ ncalls' = ncalls + 1
    /\ UNCHANGED <<patched, mod, env, procs>>

\* pystow.open(key, ...) in its read mode, pystow.load_df(key, ...), ...
CallApiRead ==
    /\ ncalls < MaxCalls
    /\ \E op \in ReadOnlyOps, key \in StoreKeys, sk \in AdapterSubkeys, name \in StoreNames :
          LET r == ApiRead(op, dirs, files, key, sk, name)
          IN  /\ dirs' = r.dirs
              /\ files' = r.files
              /\ last' = Stored("pystow", op, <<key, sk, name>>, r)
    /\ ncalls' = ncalls + 1
    /\ UNCHANGED <<patched, mod, env, procs>>

\* mod.dump_df(...), mod.dump_json(...), ...
CallModuleDump ==
    /\ ncalls < MaxCalls
    /\ mod # NoModule
    /\ \E op \in StoreDumpOps, sk \in AdapterSubkeys, name \in StoreNames :
          LET r == ModuleDump(op, dirs, files, mod, sk, name)
          IN  /\ dirs' = r.dirs
              /\ files' = r.files
              /\ last' = Stored("Module", op, <<mod, sk, name>>, r)
    /\ ncalls' = ncalls + 1
    /\ UNCHANGED <<patched, mod, env, procs>>

\* pystow.dump_df(key, ...), pystow.dump_json(key, ...), ...
CallApiDump ==
    /\ ncalls < MaxCalls
    /\ \E op \in StoreDumpOps, key \in StoreKeys, sk \in AdapterSubkeys, name \in StoreNames :
          LET r == ApiDump(op, dirs, files, key, sk, name)
          IN  /\ dirs' = r.dirs
              /\ files' = r.files
              /\ last' = Stored("pystow", op, <<key, sk, name>>, r)
    /\ ncalls' = ncalls + 1
    /\ UNCHANGED <<patched, mod, env, procs>>

NextStore ==
    \/ CallApiModule
    \/ CallModuleRead
    \/ CallApiRead
    \/ CallModuleDump
    \/ CallApiDump

SpecStore == Init /\ [][NextStore]_vars

\* C27: every dump called with subkeys, whether their directories exist
\* or not, returns without an error and leaves the directories of the
\* subkeys and the file written by this call.
C27_DumpCreatesDirs ==
    (last.op \in StoreDumpOps /\ last.args[2] # <<>>)
        => /\ last.error = NoError
           /\ Parent(last.path) \in dirs
           /\ last.path \in DOMAIN files
           /\ files[last.path].call = ncalls

\* C28: a read-only operation, on a Module or top-level, returning or
\* raising, leaves the directories and the files as they were.
C28_ReadsLeaveNoTrace ==
    last.op \in ReadOnlyOps => (last.dirsSame /\ last.filesSame)

----------------------------------------------------------------------------
(* Concurrent callers of ensure_untar and ensure_rdf.  The two processes *)
(* call with the same arguments; a call is the sequence of steps the     *)
(* method makes after its file is ensured: the test whether the          *)
(* extraction directory or the pickle cache exists, and either the       *)
(* return of what exists or the steps that produce it.                   *)

DerivedOps == {"ensure_untar", "ensure_rdf"}
DerivedUrl(op) == IF op = "ensure_untar" THEN <<"r", "a.tar.gz">> ELSE <<"r", "g.rdf">>

\* The extraction directory of ensure_untar and the cache path of
\* ensure_rdf for the file at path.
Artifact(op, path) ==
    IF op = "ensure_untar"
    THEN joinpath(Parent(path), SliceToMinus(PathName(path), suffixes_len(PathName(path))))
    ELSE with_suffix(path, PathSuffix(PathName(path)) \o ".pickle.gz")

\* The other callers that are producing the artifact of p.
Producers(p) ==
    {q \in Callers \ {p} : /\ procs[q].pc \in {"mkdir", "extract", "parse", "open", "dump"}
                           /\ procs[q].artifact = procs[p].artifact}

\* The artifact of p is whole: every member is in the directory, or the
\* cache holds a pickled graph.
Whole(p) ==
    IF procs[p].op = "ensure_untar"
    THEN \A i \in 1..Len(Members) : Append(procs[p].artifact, Members[i]) \in DOMAIN files
    ELSE gzip_pickle_load(files, procs[p].artifact).error = NoError

\* The call starts: the module of the key and self.ensure, taken as one
\* step.
DerivedStart(p) ==
    /\ ncalls < MaxCalls
    /\ procs[p].pc \in {"idle", "done"}
    /\ \E op \in DerivedOps, force \in BOOLEAN :
          LET e == ApiEnsure(dirs, files, "k1", <<>>, DerivedUrl(op), None, force, TRUE)
          IN  /\ dirs' = e.dirs
              /\ files' = e.files
              /\ procs' = [procs EXCEPT ![p] =
                            [pc |-> "test", op |-> op, force |-> force, call |-> ncalls + 1,
                             source |-> e.target, artifact |-> Artifact(op, e.target),
                             k |-> 0, consumed |-> FALSE, whole |-> FALSE, busy |-> {},
                             val |-> NoValue, error |-> NoError]]
    /\ ncalls' = ncalls + 1
    /\ UNCHANGED <<patched, mod, last, env>>

\* the test waits while another call is extracting into the directory
UntarTestWaits(p) ==
    /\ procs[p].pc = "test" /\ procs[p].op = "ensure_untar"
    /\ Producers(p) = {}
    /\ procs' = [procs EXCEPT ![p] =
                  IF procs[p].artifact \in dirs /\ ~procs[p].force
                  THEN [@ EXCEPT !.pc = "done", !.consumed = TRUE, !.whole = Whole(p), !.busy = Producers(p)]
                  ELSE [@ EXCEPT !.pc = "mkdir"]]
    /\ UNCHANGED <<dirs, files, patched, mod, last, ncalls, env>>

\* if unzipped_path.is_dir() and not force: return unzipped_path
UntarTest(p) ==
    /\ procs[p].pc = "test" /\ procs[p].op = "ensure_untar"
    /\ procs' = [procs EXCEPT ![p] =
                  IF procs[p].artifact \in dirs /\ ~procs[p].force
                  THEN [@ EXCEPT !.pc = "done", !.consumed = TRUE, !.whole = Whole(p), !.busy = Producers(p)]
                  ELSE [@ EXCEPT !.pc = "mkdir"]]
    /\ UNCHANGED <<dirs, files, patched, mod, last, ncalls, env>>

\* unzipped_path.mkdir(exist_ok=True, parents=True)
UntarMkdir(p) ==
    /\ procs[p].pc = "mkdir"
    /\ dirs' = dirs \cup Prefixes(procs[p].artifact)
    /\ procs' = [procs EXCEPT ![p].pc = "extract"]
    /\ UNCHANGED <<files, patched, mod, last, ncalls, env>>

\* extractall writes the next member
UntarExtractMember(p) ==
    /\ procs[p].pc = "extract"
    /\ LET member == Members[procs[p].k + 1]
           path == Append(procs[p].artifact, member)
       IN  files' = [q \in DOMAIN files \cup {path} |->
                        IF q = path
                        THEN MemberContent(DerivedUrl(procs[p].op), member, procs[p].call)
                        ELSE files[q]]
    /\ procs' = [procs EXCEPT ![p] =
                  [@ EXCEPT !.k = @ + 1,
                            !.pc = IF procs[p].k + 1 = Len(Members) THEN "done" ELSE "extract"]]
    /\ UNCHANGED <<dirs, patched, mod, last, ncalls, env>>

\* if cache_path.exists() and not force:
RdfTest(p) ==
    /\ procs[p].pc = "test" /\ procs[p].op = "ensure_rdf"
    /\ procs' = [procs EXCEPT ![p].pc =
                  IF Exists(dirs, files, procs[p].artifact) /\ ~procs[p].force
                  THEN "load" ELSE "parse"]
    /\ UNCHANGED <<dirs, files, patched, mod, last, ncalls, env>>

\* with gzip.open(cache_path, "rb") as file: return pickle.load(file)
RdfLoad(p) ==
    /\ procs[p].pc = "load"
    /\ LET r == gzip_pickle_load(files, procs[p].artifact)
       IN  procs' = [procs EXCEPT ![p] =
                      [@ EXCEPT !.pc = "done", !.consumed = TRUE, !.whole = Whole(p),
                                !.busy = Producers(p), !.val = r.val, !.error = r.error]]
    /\ UNCHANGED <<dirs, files, patched, mod, last, ncalls, env>>

\* rv = read_rdf(path=path, ...)
RdfParse(p) ==
    /\ procs[p].pc = "parse"
    /\ procs' = [procs EXCEPT ![p] =
                  [@ EXCEPT !.pc = "open", !.val = read_rdf(files[procs[p].source], "guess")]]
    /\ UNCHANGED <<dirs, files, patched, mod, last, ncalls, env>>

\* with gzip.open(cache_path, "wb") as file: the cache is there and empty
RdfOpenCache(p) ==
    /\ procs[p].pc = "open"
    /\ files' = [q \in DOMAIN files \cup {procs[p].artifact} |->
                    IF q = procs[p].artifact THEN Written(NoBytes, procs[p].call)
                    ELSE files[q]]
    /\ procs' = [procs EXCEPT ![p].pc = "dump"]
    /\ UNCHANGED <<dirs, patched, mod, last, ncalls, env>>

\* pickle.dump(rv, file, ...) and the end of the with statement
RdfDump(p) ==
    /\ procs[p].pc = "dump"
    /\ files' = [files EXCEPT ![procs[p].artifact] =
                    Written(gzip_pickle_dump(procs[p].val), procs[p].call)]
    /\ procs' = [procs EXCEPT ![p].pc = "done"]
    /\ UNCHANGED <<dirs, patched, mod, last, ncalls, env>>

NextDerived ==
    \/ \E p \in Callers : DerivedStart(p)
    \/ \E p \in Callers : UntarTest(p)
    \/ \E p \in Callers : UntarMkdir(p)
    \/ \E p \in Callers : UntarExtractMember(p)
    \/ \E p \in Callers : RdfTest(p)
    \/ \E p \in Callers : RdfLoad(p)
    \/ \E p \in Callers : RdfParse(p)
    \/ \E p \in Callers : RdfOpenCache(p)
    \/ \E p \in Callers : RdfDump(p)

SpecDerived == Init /\ [][NextDerived]_vars

\* The call of p returned what it found instead of producing it.
Consumed(p) == procs[p].pc = "done" /\ procs[p].consumed

\* C30 as stated: a call that returned the extraction directory, or loaded
\* the pickle cache, that it found did so while no other call was
\* producing it.
C30_NeverConsumesUnfinished ==
    \A p \in Callers : Consumed(p) => procs[p].busy = {}

\* C30 as amended: the calls are not coordinated.  No step of a call
\* waits for the other process; a call without force returns the
\* extraction directory as soon as it exists and loads the pickle cache as
\* soon as it exists, producing nothing itself, also while the other call
\* is still producing it.
C30_ConsumesWhatExists ==
    \A p \in Callers :
       /\ (procs[p].pc \in {"idle", "done"} /\ ncalls < MaxCalls) => ENABLED DerivedStart(p)
       /\ procs[p].pc = "test" => ENABLED (UntarTest(p) \/ RdfTest(p))
       /\ procs[p].pc = "mkdir" => ENABLED UntarMkdir(p)
       /\ procs[p].pc = "extract" => ENABLED UntarExtractMember(p)
       /\ procs[p].pc = "load" => ENABLED RdfLoad(p)
       /\ procs[p].pc = "parse" => ENABLED RdfParse(p)
       /\ procs[p].pc = "open" => ENABLED RdfOpenCache(p)
       /\ procs[p].pc = "dump" => ENABLED RdfDump(p)
       /\ Consumed(p)
            => /\ ~procs[p].force
               /\ procs[p].k = 0
               /\ Exists(dirs, files, procs[p].artifact)

\* One call is extracting and has written the first member; the other,
\* without force, has returned the directory, in which the second member
\* is missing.
C30_Witness ==
    \E p \in Callers :
       /\ Consumed(p)
       /\ procs[p].op = "ensure_untar"
       /\ procs[p].busy # {}
       /\ ~procs[p].whole
       /\ \E q \in procs[p].busy : procs[q].pc = "extract" /\ procs[q].k = 1
       /\ Append(procs[p].artifact, Members[2]) \notin DOMAIN files

====
